---- MODULE Spec2Model ----
(***************************************************************************)
(* Model of the discount service (src/src/services/DiscountService.js and  *)
(* src/src/models/index.js).                                               *)
(*                                                                         *)
(* The service holds four rule tables (Maps), filled by the constructor    *)
(* and open to later `.set` insertions.  calculateCartDiscounts,           *)
(* validateDiscountCode and getAvailableDiscounts read them.  One caller   *)
(* drives the service: it makes a call, holds the outcome, drops it and    *)
(* goes on; between calls it may insert rules and the clock may advance.   *)
(*                                                                         *)
(* Money is decimal.js Decimal.  A Decimal is modelled as a coefficient    *)
(* and a number of decimal places, [c |-> 8370, e |-> 2] being 83.70 kept  *)
(* normalised as [c |-> 837, e |-> 1]: addition, subtraction,              *)
(* multiplication and division by 100 are exact, as they are in decimal.js *)
(* for every value of at most 20 significant digits.                       *)
(***************************************************************************)
EXTENDS Integers, Sequences, FiniteSets, TLC

(***************************************************************************)
(* Optional values: a missing property, null or undefined is None.         *)
(***************************************************************************)
None == << >>
Some(x) == << x >>
IsSome(o) == o # << >>
Get(o) == o[1]

(***************************************************************************)
(* Decimal arithmetic                                                      *)
(***************************************************************************)
RECURSIVE Pow10(_)
Pow10(k) == IF k = 0 THEN 1 ELSE 10 * Pow10(k - 1)

RECURSIVE Norm(_)
Norm(d) ==
  IF d.c = 0 THEN [c |-> 0, e |-> 0]
  ELSE IF d.e > 0 /\ d.c % 10 = 0 THEN Norm([c |-> d.c \div 10, e |-> d.e - 1])
  ELSE d

Dec(n) == [c |-> n, e |-> 0]

MaxE(a, b) == IF a.e >= b.e THEN a.e ELSE b.e
Scaled(d, e) == d.c * Pow10(e - d.e)

DAdd(a, b) == Norm([c |-> Scaled(a, MaxE(a, b)) + Scaled(b, MaxE(a, b)), e |-> MaxE(a, b)])
DSub(a, b) == Norm([c |-> Scaled(a, MaxE(a, b)) - Scaled(b, MaxE(a, b)), e |-> MaxE(a, b)])
DMul(a, b) == Norm([c |-> a.c * b.c, e |-> a.e + b.e])
DDiv100(a) == Norm([c |-> a.c, e |-> a.e + 2])
DLt(a, b) == Scaled(a, MaxE(a, b)) < Scaled(b, MaxE(a, b))
DGt(a, b) == DLt(b, a)
DMin(a, b) == IF DLt(b, a) THEN b ELSE a
DZero == Dec(0)

(***************************************************************************)
(* Strings that take part in String.includes are sequences of characters.  *)
(***************************************************************************)
Digit(n) == CASE n = 0 -> "0" [] n = 1 -> "1" [] n = 2 -> "2" [] n = 3 -> "3"
              [] n = 4 -> "4" [] n = 5 -> "5" [] n = 6 -> "6" [] n = 7 -> "7"
              [] n = 8 -> "8" [] n = 9 -> "9"

RECURSIVE NumberToString(_)
NumberToString(n) ==
  IF n < 0 THEN << "-" >> \o NumberToString(0 - n)
  ELSE IF n < 10 THEN << Digit(n) >>
  ELSE NumberToString(n \div 10) \o << Digit(n % 10) >>

Chars(name) ==
  CASE name = "PUMA"       -> << "P", "U", "M", "A" >>
    [] name = "NIKE"       -> << "N", "I", "K", "E" >>
    [] name = "ADIDAS"     -> << "A", "D", "I", "D", "A", "S" >>
    [] name = "TESTBRAND"  -> << "T", "E", "S", "T", "B", "R", "A", "N", "D" >>
    [] name = "T-shirts"   -> << "T", "-", "s", "h", "i", "r", "t", "s" >>
    [] name = "Shoes"      -> << "S", "h", "o", "e", "s" >>
    [] name = "Jeans"      -> << "J", "e", "a", "n", "s" >>
    [] name = "Caps"       -> << "C", "a", "p", "s" >>
    [] name = "ICICI"      -> << "I", "C", "I", "C", "I" >>
    [] name = "HDFC"       -> << "H", "D", "F", "C" >>
    [] name = "SBI"        -> << "S", "B", "I" >>
    [] name = "AXIS"       -> << "A", "X", "I", "S" >>
    [] name = "SUPER69"    -> << "S", "U", "P", "E", "R", "6", "9" >>
    [] name = "WELCOME20"  -> << "W", "E", "L", "C", "O", "M", "E", "2", "0" >>
    [] name = "INVALID123" -> << "I", "N", "V", "A", "L", "I", "D", "1", "2", "3" >>

Includes(m, s) ==
  \E k \in 0..(Len(m) - Len(s)) : \A j \in 1..Len(s) : m[k + j] = s[j]

RECURSIVE Join(_, _)
Join(segs, sep) ==
  IF Len(segs) = 0 THEN << >>
  ELSE IF Len(segs) = 1 THEN segs[1]
  ELSE segs[1] \o sep \o Join(Tail(segs), sep)

OffOn == << "%", " ", "o", "f", "f", " ", "o", "n", " " >>
OffWith == << "%", " ", "o", "f", "f", " ", "w", "i", "t", "h", " " >>
InstantOn == << "%", " ", "i", "n", "s", "t", "a", "n", "t", " ", "d", "i", "s", "c",
                "o", "u", "n", "t", " ", "o", "n", " " >>
CardSuffix == << " ", "c", "a", "r", "d" >>
VoucherPrefix == << "V", "o", "u", "c", "h", "e", "r", " " >>
NotAppliedSuffix == << " ", "c", "o", "u", "l", "d", " ", "n", "o", "t", " ", "b", "e",
                       " ", "a", "p", "p", "l", "i", "e", "d" >>
Separator == << " ", "|", " " >>

(***************************************************************************)
(* Messages of the Errors thrown in the try block of                       *)
(* calculateCartDiscounts, the phrases its catch block looks for with      *)
(* String.includes, and the prefixes it puts in front when it rethrows.    *)
(* The TypeError is the one Node raises on `item.product` for an item that *)
(* is null.                                                                *)
(***************************************************************************)
CartItemsRequiredMessage ==
  << "C", "a", "r", "t", " ", "i", "t", "e", "m", "s", " ", "a", "r", "e", " ", "r", "e",
     "q", "u", "i", "r", "e", "d", " ", "a", "n", "d", " ", "m", "u", "s", "t", " ", "b",
     "e", " ", "a", " ", "n", "o", "n", "-", "e", "m", "p", "t", "y", " ", "a", "r", "r",
     "a", "y" >>

CustomerRequiredMessage ==
  << "C", "u", "s", "t", "o", "m", "e", "r", " ", "p", "r", "o", "f", "i", "l", "e", " ",
     "i", "s", " ", "r", "e", "q", "u", "i", "r", "e", "d" >>

InvalidCartItemMessage ==
  << "I", "n", "v", "a", "l", "i", "d", " ", "c", "a", "r", "t", " ", "i", "t", "e", "m",
     ":", " ", "m", "i", "s", "s", "i", "n", "g", " ", "p", "r", "o", "d", "u", "c", "t",
     " ", "o", "r", " ", "q", "u", "a", "n", "t", "i", "t", "y", " ", "i", "n", "f", "o",
     "r", "m", "a", "t", "i", "o", "n" >>

NullItemTypeErrorMessage ==
  << "C", "a", "n", "n", "o", "t", " ", "r", "e", "a", "d", " ", "p", "r", "o", "p", "e",
     "r", "t", "i", "e", "s", " ", "o", "f", " ", "n", "u", "l", "l", " ", "(", "r", "e",
     "a", "d", "i", "n", "g", " ", "'", "p", "r", "o", "d", "u", "c", "t", "'", ")" >>

CartItemsRequiredPhrase ==
  << "C", "a", "r", "t", " ", "i", "t", "e", "m", "s", " ", "a", "r", "e", " ", "r", "e",
     "q", "u", "i", "r", "e", "d" >>

CustomerRequiredPhrase ==
  << "C", "u", "s", "t", "o", "m", "e", "r", " ", "p", "r", "o", "f", "i", "l", "e", " ",
     "i", "s", " ", "r", "e", "q", "u", "i", "r", "e", "d" >>

InvalidCartItemPhrase ==
  << "I", "n", "v", "a", "l", "i", "d", " ", "c", "a", "r", "t", " ", "i", "t", "e", "m" >>

InvalidInputPrefix ==
  << "I", "n", "v", "a", "l", "i", "d", " ", "i", "n", "p", "u", "t", ":", " " >>

InvalidCartDataPrefix ==
  << "I", "n", "v", "a", "l", "i", "d", " ", "c", "a", "r", "t", " ", "d", "a", "t", "a",
     ":", " " >>

FailedToCalculatePrefix ==
  << "F", "a", "i", "l", "e", "d", " ", "t", "o", " ", "c", "a", "l", "c", "u", "l", "a",
     "t", "e", " ", "d", "i", "s", "c", "o", "u", "n", "t", "s", ":", " " >>

(***************************************************************************)
(* State                                                                   *)
(***************************************************************************)
VARIABLES
  brandDiscounts,     \* this.brandDiscounts:    brand    -> rule
  categoryDiscounts,  \* this.categoryDiscounts: category -> rule
  bankOffers,         \* this.bankOffers:        bank     -> offer
  voucherCodes,       \* this.voucherCodes:      code     -> voucher
  edits,              \* number of rule insertions made after construction
  now,                \* the clock read by new Date()
  op,                 \* the call whose outcome the caller holds, or "idle"
  passed,             \* the arguments of that call as the caller passed them
  args,               \* the same objects as the call has left them
  result,             \* its outcome
  inflight            \* the calls of calculateCartDiscounts suspended at an await

vars == << brandDiscounts, categoryDiscounts, bankOffers, voucherCodes, edits, now,
           op, passed, args, result, inflight >>

tables == << brandDiscounts, categoryDiscounts, bankOffers, voucherCodes >>

(***************************************************************************)
(* Bounds of the model                                                     *)
(***************************************************************************)
MaxEdits == 1
MaxTime == 3

(***************************************************************************)
(* Dates are points of the clock: new Date('2025-12-31') is point 2, so    *)
(* that the clock 1..MaxTime holds a time before it, the time itself and   *)
(* a time after it.                                                        *)
(***************************************************************************)
Date_2025_12_31 == 2

(***************************************************************************)
(* Maps                                                                    *)
(***************************************************************************)
Has(map, key) == key \in DOMAIN map
MapSet(map, key, value) ==
  [k \in (DOMAIN map) \cup {key} |-> IF k = key THEN value ELSE map[k]]
EmptyMap == [k \in {} |-> DZero]

initializeDiscountRules ==
  /\ brandDiscounts =
       [b \in {"PUMA", "NIKE", "ADIDAS"} |->
          CASE b = "PUMA"   -> [percentage |-> 40, min_discount |-> Some(40)]
            [] b = "NIKE"   -> [percentage |-> 35, min_discount |-> Some(35)]
            [] b = "ADIDAS" -> [percentage |-> 30, min_discount |-> Some(30)]]
  /\ categoryDiscounts =
       [c \in {"T-shirts", "Shoes", "Jeans"} |->
          CASE c = "T-shirts" -> [percentage |-> 10]
            [] c = "Shoes"    -> [percentage |-> 15]
            [] c = "Jeans"    -> [percentage |-> 12]]
  /\ bankOffers =
       [b \in {"ICICI", "HDFC", "SBI"} |->
          CASE b = "ICICI" -> [percentage |-> 10, max_discount |-> Some(2000)]
            [] b = "HDFC"  -> [percentage |-> 8, max_discount |-> Some(1500)]
            [] b = "SBI"   -> [percentage |-> 5, max_discount |-> Some(1000)]]
  /\ voucherCodes =
       [v \in {"SUPER69", "WELCOME20"} |->
          CASE v = "SUPER69" ->
                 [percentage |-> 69, max_discount |-> Some(5000),
                  min_order_value |-> Some(1000), valid_until |-> Some(Date_2025_12_31)]
            [] v = "WELCOME20" ->
                 [percentage |-> 20, max_discount |-> Some(500),
                  min_order_value |-> Some(500), valid_until |-> Some(Date_2025_12_31)]]

(***************************************************************************)
(* JavaScript truthiness of an optional number: undefined and 0 are falsy. *)
(***************************************************************************)
Truthy(o) == IsSome(o) /\ Get(o) # 0

(***************************************************************************)
(* A cartItems argument is an array (a sequence, wrapped as Some), missing *)
(* (None), or a value that is no array, such as an object or a string,     *)
(* kept as its type tag.  An element of the array is an item or null       *)
(* (None).                                                                 *)
(***************************************************************************)
NotAnArray == << "typeof", "object" >>
IsArray(cartItems) == IsSome(cartItems) /\ cartItems # NotAnArray
ItemIsNull(item) == item = None

(***************************************************************************)
(* A cart item passes the check of the reduce in calculateCartDiscounts    *)
(* when it has a product, the product a base price and the item a truthy   *)
(* quantity.  A Decimal is an object, so a base price of 0 is truthy.      *)
(***************************************************************************)
ItemIsValid(item) ==
  /\ IsSome(item.product)
  /\ IsSome(Get(item.product).base_price)
  /\ Truthy(item.quantity)

BasePrice(item) == Get(Get(item.product).base_price)
Quantity(item) == Get(item.quantity)
Brand(item) == Get(item.product).brand
Category(item) == Get(item.product).category

\* cartItems.reduce((total, item) => total.add(base_price.mul(quantity)), Decimal(0))
RECURSIVE SumBasePrices(_)
SumBasePrices(items) ==
  IF Len(items) = 0 THEN DZero
  ELSE DAdd(SumBasePrices(SubSeq(items, 1, Len(items) - 1)),
            DMul(BasePrice(items[Len(items)]), Dec(Quantity(items[Len(items)]))))

BrandLabel(brand) == << "Brand", brand >>
CategoryLabel(category) == << "Category", category >>
VoucherLabel(code) == << "Voucher", code >>
BankLabel(bank) == << "Bank", bank >>

MapGetOrZero(map, key) == IF Has(map, key) THEN map[key] ELSE DZero
Mentions(messages, name) ==
  \E i \in 1..Len(messages) : Includes(messages[i], Chars(name))

\* itemPrice.mul(rule.percentage).div(100)
PercentOf(amount, percentage) == DDiv100(DMul(amount, Dec(percentage)))

(***************************************************************************)
(* The body of the forEach of applyBrandAndCategoryDiscounts for one item. *)
(* acc is the pass's total, discounts and messages so far; lines keeps the *)
(* body's locals of every item (both discountAmounts and the final         *)
(* itemPrice).                                                             *)
(***************************************************************************)
\* faulty variant: only the brands of the constructor are looked up
BrandStepBuiltInBrandsOnly(acc, item) ==
  IF Brand(item) \in {"PUMA", "NIKE", "ADIDAS"} /\ Has(brandDiscounts, Brand(item))
  THEN LET rule == brandDiscounts[Brand(item)]
           discountAmount == PercentOf(acc.itemPrice, rule.percentage)
           discountKey == BrandLabel(Brand(item))
       IN [acc EXCEPT
             !.itemPrice = DSub(acc.itemPrice, discountAmount),
             !.brandAmount = Some(discountAmount),
             !.discounts = MapSet(acc.discounts, discountKey,
                                  DAdd(MapGetOrZero(acc.discounts, discountKey),
                                       DMul(discountAmount, Dec(Quantity(item))))),
             !.messages = IF Mentions(acc.messages, Brand(item)) THEN acc.messages
                          ELSE Append(acc.messages,
                                      NumberToString(rule.percentage) \o OffOn
                                        \o Chars(Brand(item)))]
  ELSE acc

\* faulty variant: the brand discount of a line is not multiplied by its quantity
BrandStepOncePerLine(acc, item) ==
  IF Has(brandDiscounts, Brand(item))
  THEN LET rule == brandDiscounts[Brand(item)]
           discountAmount == PercentOf(acc.itemPrice, rule.percentage)
           discountKey == BrandLabel(Brand(item))
       IN [acc EXCEPT
             !.itemPrice = DSub(acc.itemPrice, discountAmount),
             !.brandAmount = Some(discountAmount),
             !.discounts = MapSet(acc.discounts, discountKey,
                                  DAdd(MapGetOrZero(acc.discounts, discountKey),
                                       discountAmount)),
             !.messages = IF Mentions(acc.messages, Brand(item)) THEN acc.messages
                          ELSE Append(acc.messages,
                                      NumberToString(rule.percentage) \o OffOn
                                        \o Chars(Brand(item)))]
  ELSE acc

BrandStep(acc, item) ==
  IF Has(brandDiscounts, Brand(item))
  THEN LET rule == brandDiscounts[Brand(item)]
           discountAmount == PercentOf(acc.itemPrice, rule.percentage)
           discountKey == BrandLabel(Brand(item))
       IN [acc EXCEPT
             !.itemPrice = DSub(acc.itemPrice, discountAmount),
             !.brandAmount = Some(discountAmount),
             !.discounts = MapSet(acc.discounts, discountKey,
                                  DAdd(MapGetOrZero(acc.discounts, discountKey),
                                       DMul(discountAmount, Dec(Quantity(item))))),
             !.messages = IF Mentions(acc.messages, Brand(item)) THEN acc.messages
                          ELSE Append(acc.messages,
                                      NumberToString(rule.percentage) \o OffOn
                                        \o Chars(Brand(item)))]
  ELSE acc

\* faulty variant: the category discount is taken on the base price
CategoryStepOnBasePrice(acc, item) ==
  IF Has(categoryDiscounts, Category(item))
  THEN LET rule == categoryDiscounts[Category(item)]
           discountAmount == PercentOf(BasePrice(item), rule.percentage)
           discountKey == CategoryLabel(Category(item))
       IN [acc EXCEPT
             !.itemPrice = DSub(acc.itemPrice, discountAmount),
             !.categoryAmount = Some(discountAmount),
             !.discounts = MapSet(acc.discounts, discountKey,
                                  DAdd(MapGetOrZero(acc.discounts, discountKey),
                                       DMul(discountAmount, Dec(Quantity(item))))),
             !.messages = IF Mentions(acc.messages, Category(item)) THEN acc.messages
                          ELSE Append(acc.messages,
                                      NumberToString(rule.percentage) \o OffOn
                                        \o Chars(Category(item)))]
  ELSE acc

\* faulty variant: the label takes the amount of the line, dropping what it held
CategoryStepOverwritesLabel(acc, item) ==
  IF Has(categoryDiscounts, Category(item))
  THEN LET rule == categoryDiscounts[Category(item)]
           discountAmount == PercentOf(acc.itemPrice, rule.percentage)
           discountKey == CategoryLabel(Category(item))
       IN [acc EXCEPT
             !.itemPrice = DSub(acc.itemPrice, discountAmount),
             !.categoryAmount = Some(discountAmount),
             !.discounts = MapSet(acc.discounts, discountKey,
                                  DMul(discountAmount, Dec(Quantity(item)))),
             !.messages = IF Mentions(acc.messages, Category(item)) THEN acc.messages
                          ELSE Append(acc.messages,
                                      NumberToString(rule.percentage) \o OffOn
                                        \o Chars(Category(item)))]
  ELSE acc

CategoryStep(acc, item) ==
  IF Has(categoryDiscounts, Category(item))
  THEN LET rule == categoryDiscounts[Category(item)]
           discountAmount == PercentOf(acc.itemPrice, rule.percentage)
           discountKey == CategoryLabel(Category(item))
       IN [acc EXCEPT
             !.itemPrice = DSub(acc.itemPrice, discountAmount),
             !.categoryAmount = Some(discountAmount),
             !.discounts = MapSet(acc.discounts, discountKey,
                                  DAdd(MapGetOrZero(acc.discounts, discountKey),
                                       DMul(discountAmount, Dec(Quantity(item))))),
             !.messages = IF Mentions(acc.messages, Category(item)) THEN acc.messages
                          ELSE Append(acc.messages,
                                      NumberToString(rule.percentage) \o OffOn
                                        \o Chars(Category(item)))]
  ELSE acc

ItemStep(pass, item) ==
  LET start == [itemPrice |-> BasePrice(item), brandAmount |-> None,
                categoryAmount |-> None, discounts |-> pass.discounts,
                messages |-> pass.messages]
      done == CategoryStep(BrandStep(start, item), item)
  IN [total |-> DAdd(pass.total, DMul(done.itemPrice, Dec(Quantity(item)))),
      discounts |-> done.discounts,
      messages |-> done.messages,
      lines |-> Append(pass.lines,
                       [brandAmount |-> done.brandAmount,
                        categoryAmount |-> done.categoryAmount,
                        itemPrice |-> done.itemPrice])]

RECURSIVE applyBrandAndCategoryDiscounts(_)
applyBrandAndCategoryDiscounts(cartItems) ==
  IF Len(cartItems) = 0
  THEN [total |-> DZero, discounts |-> EmptyMap, messages |-> << >>, lines |-> << >>]
  ELSE ItemStep(applyBrandAndCategoryDiscounts(SubSeq(cartItems, 1, Len(cartItems) - 1)),
                cartItems[Len(cartItems)])

(***************************************************************************)
(* validateDiscountCode(code, cartItems, customer), called at time t.      *)
(* cartItems is None when the caller passes no array.  The reduce throws   *)
(* (TypeError or DecimalError, caught at line 298) when cartItems is no    *)
(* array or an item is null or has no product, no base price or no         *)
(* quantity.                                                               *)
(***************************************************************************)
\* faulty variant: a voucher counts as expired from its expiry timestamp on
IsExpiredFromExpiryOn(voucher, t) ==
  IsSome(voucher.valid_until) /\ t >= Get(voucher.valid_until)

IsExpired(voucher, t) == IsSome(voucher.valid_until) /\ t > Get(voucher.valid_until)

BelowMinimum(voucher, cartTotal) ==
  Truthy(voucher.min_order_value) /\ DLt(cartTotal, Dec(Get(voucher.min_order_value)))

CanSum(cartItems) ==
  /\ IsArray(cartItems)
  /\ \A i \in 1..Len(Get(cartItems)) :
       /\ ~ItemIsNull(Get(cartItems)[i])
       /\ IsSome(Get(cartItems)[i].product)
       /\ IsSome(Get(Get(cartItems)[i].product).base_price)
       /\ IsSome(Get(cartItems)[i].quantity)

\* faulty variant: the minimum order value is checked before the expiry
validateMinOrderFirst(code, cartItems, customer, t) ==
  IF ~Has(voucherCodes, code)
  THEN [isValid |-> FALSE, errorCode |-> Some("VOUCHER_NOT_FOUND"),
        error |-> Some([text |-> "not found", code |-> code])]
  ELSE IF ~CanSum(cartItems)
  THEN [isValid |-> FALSE, errorCode |-> Some("SYSTEM_ERROR"),
        error |-> Some([text |-> "System error while validating voucher"])]
  ELSE IF BelowMinimum(voucherCodes[code], SumBasePrices(Get(cartItems)))
  THEN [isValid |-> FALSE, errorCode |-> Some("MIN_ORDER_NOT_MET"),
        error |-> Some([text |-> "Minimum order value required",
                        minimum |-> Get(voucherCodes[code].min_order_value),
                        cartTotal |-> SumBasePrices(Get(cartItems))])]
  ELSE IF IsExpired(voucherCodes[code], t)
  THEN [isValid |-> FALSE, errorCode |-> Some("VOUCHER_EXPIRED"),
        error |-> Some([text |-> "has expired on", code |-> code,
                        date |-> Get(voucherCodes[code].valid_until)])]
  ELSE [isValid |-> TRUE, errorCode |-> None, error |-> None]

validateDiscountCode(code, cartItems, customer, t) ==
  IF ~Has(voucherCodes, code)
  THEN [isValid |-> FALSE, errorCode |-> Some("VOUCHER_NOT_FOUND"),
        error |-> Some([text |-> "not found", code |-> code])]
  ELSE IF IsExpired(voucherCodes[code], t)
  THEN [isValid |-> FALSE, errorCode |-> Some("VOUCHER_EXPIRED"),
        error |-> Some([text |-> "has expired on", code |-> code,
                        date |-> Get(voucherCodes[code].valid_until)])]
  ELSE IF ~CanSum(cartItems)
  THEN [isValid |-> FALSE, errorCode |-> Some("SYSTEM_ERROR"),
        error |-> Some([text |-> "System error while validating voucher"])]
  ELSE IF BelowMinimum(voucherCodes[code], SumBasePrices(Get(cartItems)))
  THEN [isValid |-> FALSE, errorCode |-> Some("MIN_ORDER_NOT_MET"),
        error |-> Some([text |-> "Minimum order value required",
                        minimum |-> Get(voucherCodes[code].min_order_value),
                        cartTotal |-> SumBasePrices(Get(cartItems))])]
  ELSE [isValid |-> TRUE, errorCode |-> None, error |-> None]

\* faulty variant: the larger of computed amount and cap is taken
CapDiscountTakesLarger(discountAmount, max_discount) ==
  IF Truthy(max_discount) /\ DLt(discountAmount, Dec(Get(max_discount)))
  THEN Dec(Get(max_discount))
  ELSE discountAmount

\* Decimal.min(discountAmount, offer.max_discount || discountAmount)
CapDiscount(discountAmount, max_discount) ==
  DMin(discountAmount,
       IF Truthy(max_discount) THEN Dec(Get(max_discount)) ELSE discountAmount)

\* faulty variant: the voucher is applied without being validated
applyVoucherDiscountUnvalidated(voucherCode, currentTotal, cartItems, customer, t) ==
  IF ~Has(voucherCodes, voucherCode)
  THEN [total |-> currentTotal, discount |-> DZero, message |-> << >>, error |-> None]
  ELSE LET voucher == voucherCodes[voucherCode]
           discountAmount == PercentOf(currentTotal, voucher.percentage)
           actualDiscount == CapDiscount(discountAmount, voucher.max_discount)
       IN [total |-> DSub(currentTotal, actualDiscount),
           discount |-> actualDiscount,
           message |-> NumberToString(voucher.percentage) \o OffWith
                         \o Chars(voucherCode),
           error |-> None]

\* faulty variant: the minimum order value is compared with the running total
applyVoucherDiscountMinOnRunningTotal(voucherCode, currentTotal, cartItems, customer, t) ==
  IF ~Has(voucherCodes, voucherCode)
  THEN [total |-> currentTotal, discount |-> DZero, message |-> << >>, error |-> None]
  ELSE LET voucher == voucherCodes[voucherCode]
           validation == validateDiscountCode(voucherCode, cartItems, customer, t)
           discountAmount == PercentOf(currentTotal, voucher.percentage)
           actualDiscount == CapDiscount(discountAmount, voucher.max_discount)
       IN IF ~validation.isValid
          THEN [total |-> currentTotal, discount |-> DZero, message |-> << >>,
                error |-> validation.error]
          ELSE IF BelowMinimum(voucher, currentTotal)
          THEN [total |-> currentTotal, discount |-> DZero, message |-> << >>,
                error |-> Some([text |-> "Minimum order value required",
                                minimum |-> Get(voucher.min_order_value),
                                cartTotal |-> currentTotal])]
          ELSE [total |-> DSub(currentTotal, actualDiscount),
                discount |-> actualDiscount,
                message |-> NumberToString(voucher.percentage) \o OffWith
                              \o Chars(voucherCode),
                error |-> None]

\* faulty variant: a capped voucher gives its cap as a flat amount
applyVoucherDiscountFlatCap(voucherCode, currentTotal, cartItems, customer, t) ==
  IF ~Has(voucherCodes, voucherCode)
  THEN [total |-> currentTotal, discount |-> DZero, message |-> << >>, error |-> None]
  ELSE LET voucher == voucherCodes[voucherCode]
           validation == validateDiscountCode(voucherCode, cartItems, customer, t)
           discountAmount == PercentOf(currentTotal, voucher.percentage)
           actualDiscount == IF Truthy(voucher.max_discount)
                             THEN Dec(Get(voucher.max_discount))
                             ELSE discountAmount
       IN IF ~validation.isValid
          THEN [total |-> currentTotal, discount |-> DZero, message |-> << >>,
                error |-> validation.error]
          ELSE [total |-> DSub(currentTotal, actualDiscount),
                discount |-> actualDiscount,
                message |-> NumberToString(voucher.percentage) \o OffWith
                              \o Chars(voucherCode),
                error |-> None]

applyVoucherDiscount(voucherCode, currentTotal, cartItems, customer, t) ==
  IF ~Has(voucherCodes, voucherCode)
  THEN [total |-> currentTotal, discount |-> DZero, message |-> << >>, error |-> None]
  ELSE LET voucher == voucherCodes[voucherCode]
           validation == validateDiscountCode(voucherCode, cartItems, customer, t)
           discountAmount == PercentOf(currentTotal, voucher.percentage)
           actualDiscount == CapDiscount(discountAmount, voucher.max_discount)
       IN IF ~validation.isValid
          THEN [total |-> currentTotal, discount |-> DZero, message |-> << >>,
                error |-> validation.error]
          ELSE [total |-> DSub(currentTotal, actualDiscount),
                discount |-> actualDiscount,
                message |-> NumberToString(voucher.percentage) \o OffWith
                              \o Chars(voucherCode),
                error |-> None]

\* faulty variant: the offer of a known bank is given whatever the payment method
applyBankOfferAnyMethod(paymentInfo, currentTotal) ==
  IF ~Has(bankOffers, Get(paymentInfo.bank_name))
  THEN [total |-> currentTotal, discount |-> DZero, message |-> << >>]
  ELSE LET bankOffer == bankOffers[Get(paymentInfo.bank_name)]
           discountAmount == PercentOf(currentTotal, bankOffer.percentage)
           actualDiscount == CapDiscount(discountAmount, bankOffer.max_discount)
       IN [total |-> DSub(currentTotal, actualDiscount),
           discount |-> actualDiscount,
           message |-> NumberToString(bankOffer.percentage) \o InstantOn
                         \o Chars(Get(paymentInfo.bank_name)) \o CardSuffix]

applyBankOffer(paymentInfo, currentTotal) ==
  IF ~Has(bankOffers, Get(paymentInfo.bank_name)) \/ paymentInfo.method # "CARD"
  THEN [total |-> currentTotal, discount |-> DZero, message |-> << >>]
  ELSE LET bankOffer == bankOffers[Get(paymentInfo.bank_name)]
           discountAmount == PercentOf(currentTotal, bankOffer.percentage)
           actualDiscount == CapDiscount(discountAmount, bankOffer.max_discount)
       IN [total |-> DSub(currentTotal, actualDiscount),
           discount |-> actualDiscount,
           message |-> NumberToString(bankOffer.percentage) \o InstantOn
                         \o Chars(Get(paymentInfo.bank_name)) \o CardSuffix]

(***************************************************************************)
(* calculateCartDiscounts(cartItems, customer, paymentInfo), at time t.    *)
(* The outcome is a DiscountedPrice or a thrown Error.  The steps carry    *)
(* the handler's locals currentTotal, appliedDiscounts, discountMessages;  *)
(* warned is what console.warn was given.                                  *)
(***************************************************************************)
Threw(message) == [status |-> "threw", error |-> message]

\* faulty variant: the catch block rethrows every Error under the generic prefix
RethrowAllAsFailure(message) == Threw(FailedToCalculatePrefix \o message)

\* the catch block of calculateCartDiscounts
Rethrow(message) ==
  IF Includes(message, CartItemsRequiredPhrase)
  THEN Threw(InvalidInputPrefix \o message)
  ELSE IF Includes(message, CustomerRequiredPhrase)
  THEN Threw(InvalidInputPrefix \o message)
  ELSE IF Includes(message, InvalidCartItemPhrase)
  THEN Threw(InvalidCartDataPrefix \o message)
  ELSE Threw(FailedToCalculatePrefix \o message)

\* what the callback of the reduce at lines 73-78 does on one item
ItemFault(item) ==
  IF ItemIsNull(item) THEN "TypeError"
  ELSE IF ~ItemIsValid(item) THEN "InvalidCartItem"
  ELSE "none"

\* the index of the first item on which the callback throws, 0 when none does
FirstFault(items) ==
  IF \A i \in 1..Len(items) : ItemFault(items[i]) = "none" THEN 0
  ELSE CHOOSE i \in 1..Len(items) :
         /\ ItemFault(items[i]) # "none"
         /\ \A j \in 1..(i - 1) : ItemFault(items[j]) = "none"

\* faulty variant: a rejected voucher leaves no note in the narrative
VoucherStepSilent(st, cartItems, customer, t) ==
  IF ~IsSome(customer.voucherCode) THEN st
  ELSE LET code == Get(customer.voucherCode)
           r == applyVoucherDiscount(code, st.currentTotal, cartItems, customer, t)
       IN IF DGt(r.discount, DZero)
          THEN [st EXCEPT !.currentTotal = r.total,
                          !.appliedDiscounts = MapSet(st.appliedDiscounts,
                                                      VoucherLabel(code), r.discount),
                          !.discountMessages = Append(st.discountMessages, r.message)]
          ELSE IF IsSome(r.error)
          THEN [st EXCEPT !.warned = r.error]
          ELSE st

\* faulty variant: a customer without a code is given WELCOME20
VoucherStepFallsBackToWelcome(st, cartItems, customer, t) ==
  LET code == IF IsSome(customer.voucherCode) THEN Get(customer.voucherCode)
              ELSE "WELCOME20"
      r == applyVoucherDiscount(code, st.currentTotal, cartItems, customer, t)
  IN IF DGt(r.discount, DZero)
     THEN [st EXCEPT !.currentTotal = r.total,
                     !.appliedDiscounts = MapSet(st.appliedDiscounts,
                                                 VoucherLabel(code), r.discount),
                     !.discountMessages = Append(st.discountMessages, r.message)]
     ELSE IF IsSome(r.error)
     THEN [st EXCEPT !.warned = r.error,
                     !.discountMessages =
                        Append(st.discountMessages,
                               VoucherPrefix \o Chars(code) \o NotAppliedSuffix)]
     ELSE st

\* faulty variant: the voucher label is written whatever the amount (gte for gt)
VoucherStepLabelsRejected(st, cartItems, customer, t) ==
  IF ~IsSome(customer.voucherCode) THEN st
  ELSE LET code == Get(customer.voucherCode)
           r == applyVoucherDiscount(code, st.currentTotal, cartItems, customer, t)
       IN [st EXCEPT !.currentTotal = r.total,
                     !.appliedDiscounts = MapSet(st.appliedDiscounts,
                                                 VoucherLabel(code), r.discount),
                     !.discountMessages = Append(st.discountMessages, r.message)]

VoucherStep(st, cartItems, customer, t) ==
  IF ~IsSome(customer.voucherCode) THEN st
  ELSE LET code == Get(customer.voucherCode)
           r == applyVoucherDiscount(code, st.currentTotal, cartItems, customer, t)
       IN IF DGt(r.discount, DZero)
          THEN [st EXCEPT !.currentTotal = r.total,
                          !.appliedDiscounts = MapSet(st.appliedDiscounts,
                                                      VoucherLabel(code), r.discount),
                          !.discountMessages = Append(st.discountMessages, r.message)]
          ELSE IF IsSome(r.error)
          THEN [st EXCEPT !.warned = r.error,
                          !.discountMessages =
                             Append(st.discountMessages,
                                    VoucherPrefix \o Chars(code) \o NotAppliedSuffix)]
          ELSE st

\* faulty variant: the bank discount is recorded but not subtracted
BankStepKeepsTotal(st, paymentInfo) ==
  IF ~(IsSome(paymentInfo) /\ IsSome(Get(paymentInfo).bank_name)) THEN st
  ELSE LET r == applyBankOffer(Get(paymentInfo), st.currentTotal)
       IN IF DGt(r.discount, DZero)
          THEN [st EXCEPT !.appliedDiscounts =
                             MapSet(st.appliedDiscounts,
                                    BankLabel(Get(Get(paymentInfo).bank_name)),
                                    r.discount),
                          !.discountMessages = Append(st.discountMessages, r.message)]
          ELSE st

BankStep(st, paymentInfo) ==
  IF ~(IsSome(paymentInfo) /\ IsSome(Get(paymentInfo).bank_name)) THEN st
  ELSE LET r == applyBankOffer(Get(paymentInfo), st.currentTotal)
       IN IF DGt(r.discount, DZero)
          THEN [st EXCEPT !.currentTotal = r.total,
                          !.appliedDiscounts =
                             MapSet(st.appliedDiscounts,
                                    BankLabel(Get(Get(paymentInfo).bank_name)),
                                    r.discount),
                          !.discountMessages = Append(st.discountMessages, r.message)]
          ELSE st

BrandCategoryStep(cartItems) ==
  LET bc == applyBrandAndCategoryDiscounts(cartItems)
  IN [currentTotal |-> bc.total, appliedDiscounts |-> bc.discounts,
      discountMessages |-> bc.messages, lines |-> bc.lines, warned |-> None]

calculateCartDiscounts(cartItems, customer, paymentInfo, t) ==
  IF ~IsSome(cartItems) \/ ~IsArray(cartItems) \/ Len(Get(cartItems)) = 0
  THEN Rethrow(CartItemsRequiredMessage)
  ELSE IF ~IsSome(customer)
  THEN Rethrow(CustomerRequiredMessage)
  ELSE IF FirstFault(Get(cartItems)) # 0
  THEN IF ItemFault(Get(cartItems)[FirstFault(Get(cartItems))]) = "TypeError"
       THEN Rethrow(NullItemTypeErrorMessage)
       ELSE Rethrow(InvalidCartItemMessage)
  ELSE LET items == Get(cartItems)
           st == BankStep(VoucherStep(BrandCategoryStep(items), Some(items),
                                      Get(customer), t),
                          paymentInfo)
       IN [status |-> "returned",
           original_price |-> SumBasePrices(items),
           final_price |-> st.currentTotal,
           applied_discounts |-> st.appliedDiscounts,
           message |-> Join(st.discountMessages, Separator),
           lines |-> st.lines,
           warned |-> st.warned]

\* DiscountedPrice.getTotalDiscount: the sum of the values of applied_discounts
RECURSIVE SumValues(_, _)
SumValues(map, keys) ==
  IF keys = {} THEN DZero
  ELSE LET k == CHOOSE x \in keys : TRUE
       IN DAdd(SumValues(map, keys \ {k}), map[k])

getTotalDiscount(price) == SumValues(price.applied_discounts, DOMAIN price.applied_discounts)

(***************************************************************************)
(* Decimal division.  decimal.js rounds a quotient to `precision`          *)
(* significant digits, 20 by default, with rounding mode ROUND_HALF_UP.    *)
(* A quotient is kept as a sign s, its digits d (most significant first,   *)
(* no zero at either end) and a number of decimal places e:                *)
(* [s |-> 1, d |-> << 5, 1, 4 >>, e |-> 1] is 51.4.  Zero has no digits.   *)
(* The digits are produced by long division, one at a time.                *)
(***************************************************************************)
Precision == 20

Abs(n) == IF n < 0 THEN 0 - n ELSE n
Sign(n) == IF n < 0 THEN 0 - 1 ELSE 1

RECURSIVE NatDigits(_)
NatDigits(n) == IF n = 0 THEN << >> ELSE NatDigits(n \div 10) \o << n % 10 >>

RECURSIVE StripLeadingZeros(_)
StripLeadingZeros(ds) ==
  IF Len(ds) > 0 /\ ds[1] = 0 THEN StripLeadingZeros(Tail(ds)) ELSE ds

\* the digits of the number one greater
RECURSIVE Increment(_)
Increment(ds) ==
  IF Len(ds) = 0 THEN << 1 >>
  ELSE IF ds[Len(ds)] < 9
  THEN SubSeq(ds, 1, Len(ds) - 1) \o << ds[Len(ds)] + 1 >>
  ELSE Increment(SubSeq(ds, 1, Len(ds) - 1)) \o << 0 >>

\* digits and decimal places without zeros at the end of the digits
RECURSIVE Canonical(_)
Canonical(q) ==
  IF Len(q.d) = 0 THEN [s |-> 1, d |-> << >>, e |-> 0]
  ELSE IF q.d[Len(q.d)] = 0
  THEN Canonical([q EXCEPT !.d = SubSeq(q.d, 1, Len(q.d) - 1), !.e = q.e - 1])
  ELSE q

\* long division of the remainder r by m, after the digits ds (significant: sig)
RECURSIVE LongDivision(_, _, _, _, _)
LongDivision(r, m, ds, sig, places) ==
  IF r = 0 \/ sig = Precision
  THEN [d |-> IF 2 * r >= m /\ r # 0 THEN Increment(ds) ELSE ds, e |-> places]
  ELSE LongDivision((r * 10) % m, m, ds \o << (r * 10) \div m >>,
                    IF sig = 0 /\ (r * 10) \div m = 0 THEN 0 ELSE sig + 1,
                    places + 1)

\* a.div(b), b not zero
DDiv(a, b) ==
  IF a.c = 0 THEN [s |-> 1, d |-> << >>, e |-> 0]
  ELSE LET n == Abs(a.c)
           m == Abs(b.c)
           q == LongDivision(n % m, m, NatDigits(n \div m), Len(NatDigits(n \div m)), 0)
       IN Canonical([s |-> Sign(a.c) * Sign(b.c), d |-> StripLeadingZeros(q.d),
                     e |-> q.e + a.e - b.e])

\* q.mul(100)
QMul100(q) == IF Len(q.d) = 0 THEN q ELSE [q EXCEPT !.e = q.e - 2]

\* new Decimal(0)
QZero == [s |-> 1, d |-> << >>, e |-> 0]

\* faulty variant: the quotient is taken whatever the original price; x.div(0) is
\* NaN or Infinity in decimal.js, kept here as the sign 0
getDiscountPercentageUnguarded(price) ==
  IF price.original_price.c = 0 THEN [s |-> 0, d |-> << >>, e |-> 0]
  ELSE QMul100(DDiv(getTotalDiscount(price), price.original_price))

\* DiscountedPrice.getDiscountPercentage
getDiscountPercentage(price) ==
  IF price.original_price.c = 0 THEN QZero
  ELSE QMul100(DDiv(getTotalDiscount(price), price.original_price))

(***************************************************************************)
(* getAvailableDiscounts(cartItems, customer).  It has no try block: the   *)
(* TypeError of cartItems.map on a missing or non-array cart, and of       *)
(* item.product.brand on a null item or an item without product, reaches   *)
(* the caller as raised (messages as Node words them).  The brands and     *)
(* categories are listed in the order of their first item.                 *)
(***************************************************************************)
MapOfUndefinedMessage ==
  << "C", "a", "n", "n", "o", "t", " ", "r", "e", "a", "d", " ", "p", "r", "o", "p", "e",
     "r", "t", "i", "e", "s", " ", "o", "f", " ", "u", "n", "d", "e", "f", "i", "n", "e",
     "d", " ", "(", "r", "e", "a", "d", "i", "n", "g", " ", "'", "m", "a", "p", "'", ")" >>

MapIsNoFunctionMessage ==
  << "c", "a", "r", "t", "I", "t", "e", "m", "s", ".", "m", "a", "p", " ", "i", "s", " ",
     "n", "o", "t", " ", "a", " ", "f", "u", "n", "c", "t", "i", "o", "n" >>

BrandOfUndefinedMessage ==
  << "C", "a", "n", "n", "o", "t", " ", "r", "e", "a", "d", " ", "p", "r", "o", "p", "e",
     "r", "t", "i", "e", "s", " ", "o", "f", " ", "u", "n", "d", "e", "f", "i", "n", "e",
     "d", " ", "(", "r", "e", "a", "d", "i", "n", "g", " ", "'", "b", "r", "a", "n", "d",
     "'", ")" >>

\* faulty variant: the names are not passed through a Set
UniqueKeepsDuplicates(names) == names

\* [...new Set(names)]
RECURSIVE Unique(_)
Unique(names) ==
  IF Len(names) = 0 THEN << >>
  ELSE LET rest == Unique(SubSeq(names, 1, Len(names) - 1))
           last == names[Len(names)]
       IN IF \E i \in 1..Len(rest) : rest[i] = last THEN rest ELSE Append(rest, last)

\* the entries pushed for the names that are keys of the table
RECURSIVE Available(_, _, _)
Available(names, table, field) ==
  IF Len(names) = 0 THEN << >>
  ELSE LET rest == Available(SubSeq(names, 1, Len(names) - 1), table, field)
           last == names[Len(names)]
       IN IF Has(table, last)
          THEN Append(rest, [kind |-> field, name |-> last, discount |-> table[last]])
          ELSE rest

getAvailableDiscounts(cartItems, customer) ==
  IF ~IsSome(cartItems) THEN Threw(MapOfUndefinedMessage)
  ELSE IF ~IsArray(cartItems) THEN Threw(MapIsNoFunctionMessage)
  ELSE LET items == Get(cartItems)
           broken == { i \in 1..Len(items) :
                         ItemIsNull(items[i]) \/ ~IsSome(items[i].product) }
           first == CHOOSE i \in broken : \A j \in broken : i <= j
       IN IF broken # {}
          THEN IF ItemIsNull(items[first]) THEN Threw(NullItemTypeErrorMessage)
               ELSE Threw(BrandOfUndefinedMessage)
          ELSE [status |-> "returned",
                brands |-> Available(Unique([i \in 1..Len(items) |-> Brand(items[i])]),
                                     brandDiscounts, "brand"),
                categories |->
                  Available(Unique([i \in 1..Len(items) |-> Category(items[i])]),
                            categoryDiscounts, "category"),
                vouchers |-> << >>,
                banks |-> << >>]

(***************************************************************************)
(* The inputs the caller draws from                                        *)
(***************************************************************************)
Brands == {"PUMA", "TESTBRAND"}
Categories == {"T-shirts", "Caps"}
Prices == {0, 500, 2000}
Quantities == {1, 2}

Product(brand, category, base_price) ==
  [brand |-> brand, category |-> category, base_price |-> Some(Dec(base_price)),
   current_price |-> Dec(base_price)]
CartItem(product, quantity) == [product |-> Some(product), quantity |-> Some(quantity)]

Items ==
  { CartItem(Product(b, c, p), q) : b \in Brands, c \in Categories, p \in Prices,
                                    q \in Quantities }

\* the items of the carts of two
PairItems ==
  { CartItem(Product("PUMA", "T-shirts", 2000), 2),
    CartItem(Product("TESTBRAND", "Caps", 2000), 2),
    CartItem(Product("PUMA", "T-shirts", 500), 1),
    CartItem(Product("TESTBRAND", "T-shirts", 500), 1) }

\* items that break a precondition of calculate
NoProductItem == [product |-> None, quantity |-> Some(1)]
NoPriceItem ==
  [product |-> Some([brand |-> "PUMA", category |-> "T-shirts", base_price |-> None,
                     current_price |-> Dec(500)]),
   quantity |-> Some(1)]
NoQuantityItem == [product |-> Some(Product("PUMA", "T-shirts", 500)), quantity |-> None]
ZeroQuantityItem == CartItem(Product("PUMA", "T-shirts", 500), 0)
NegativeQuantityItem == CartItem(Product("PUMA", "T-shirts", 500), -1)
NegativePriceItem == CartItem(Product("PUMA", "T-shirts", -500), 1)
NullItem == None
OddItems ==
  { NoProductItem, NoPriceItem, NoQuantityItem, ZeroQuantityItem, NegativeQuantityItem,
    NegativePriceItem, NullItem }

GoodItem == CartItem(Product("TESTBRAND", "Caps", 2000), 1)

\* the cart of testAssignmentScenario, and a cart of the same total that matches no rule
AssignmentCart ==
  Some(<< CartItem(Product("PUMA", "T-shirts", 2000), 2),
          CartItem(Product("PUMA", "T-shirts", 1500), 1) >>)
UnmatchedCart ==
  Some(<< CartItem(Product("TESTBRAND", "Caps", 2000), 2),
          CartItem(Product("TESTBRAND", "Caps", 1500), 1) >>)

\* a cart whose item has a category named as its brand
OwnBrandCart == Some(<< CartItem(Product("PUMA", "PUMA", 2000), 1) >>)

Carts ==
  { Some(<< i >>) : i \in Items } \cup { Some(<< i, j >>) : i \in PairItems, j \in PairItems }
    \cup { AssignmentCart, UnmatchedCart, OwnBrandCart }
OddCarts ==
  { None, NotAnArray, Some(<< >>) } \cup { Some(<< i >>) : i \in OddItems }
    \cup { Some(<< GoodItem, i >>) : i \in OddItems }
    \cup { Some(<< NullItem, NoProductItem >>), Some(<< NoProductItem, NullItem >>) }

Codes == {"SUPER69", "WELCOME20", "INVALID123"}
Customer(voucherCode) == Some([voucherCode |-> voucherCode])
Customers == { Customer(None) } \cup { Customer(Some(c)) : c \in Codes }

PaymentInfo(method, bank_name) == Some([method |-> method, bank_name |-> bank_name])
Payments ==
  { None, PaymentInfo("CARD", Some("ICICI")), PaymentInfo("UPI", Some("ICICI")),
    PaymentInfo("CARD", Some("AXIS")), PaymentInfo("UPI", None) }

\* carts of one unit at 2000 are paid in every way, the others with no payment info or
\* by ICICI card
PaymentsFor(cart) ==
  IF /\ Len(Get(cart)) = 1
     /\ Quantity(Get(cart)[1]) = 1
     /\ BasePrice(Get(cart)[1]) = Dec(2000)
  THEN Payments
  ELSE { None, PaymentInfo("CARD", Some("ICICI")) }

\* rules a caller inserts after construction
BrandEdits ==
  { << "TESTBRAND", [percentage |-> 30, min_discount |-> None] >> }
CategoryEdits ==
  { << "Caps", [percentage |-> 100] >>, << "PUMA", [percentage |-> 10] >> }
BankEdits ==
  { << "ICICI", [percentage |-> 10, max_discount |-> None] >>,
    << "ICICI", [percentage |-> 10, max_discount |-> Some(0)] >>,
    << "ICICI", [percentage |-> 10, max_discount |-> Some(50)] >> }
VoucherEdits ==
  { << "SUPER69", [percentage |-> 69, max_discount |-> Some(0),
                   min_order_value |-> Some(1000),
                   valid_until |-> Some(Date_2025_12_31)] >>,
    << "SUPER69", [percentage |-> 100, max_discount |-> None,
                   min_order_value |-> None, valid_until |-> None] >> }

(***************************************************************************)
(* The state machine                                                       *)
(***************************************************************************)
\* the two calls that may be in flight together, and a call not made
CallIds == {1, 2}
NotCalled == [pc |-> "none"]

Init ==
  /\ initializeDiscountRules
  /\ edits = 0
  /\ now = 1
  /\ op = "idle"
  /\ passed = None
  /\ args = None
  /\ result = None
  /\ inflight = [id \in CallIds |-> NotCalled]

\* faulty variant: the discounted unit price is written to product.current_price
CalculateWritingCurrentPrice(cartItems, customer, paymentInfo) ==
  LET outcome == calculateCartDiscounts(cartItems, customer, paymentInfo, now)
      priced == [i \in 1..Len(Get(cartItems)) |->
                   [Get(cartItems)[i] EXCEPT
                      !.product = Some([Get(Get(cartItems)[i].product) EXCEPT
                                          !.current_price = outcome.lines[i].itemPrice])]]
  IN /\ op = "idle"
     /\ op' = "calculate"
     /\ passed' = [cartItems |-> cartItems, customer |-> customer,
                   paymentInfo |-> paymentInfo]
     /\ args' = [cartItems |-> IF outcome.status = "returned" THEN Some(priced)
                               ELSE cartItems,
                 customer |-> customer, paymentInfo |-> paymentInfo]
     /\ result' = outcome
     /\ UNCHANGED << tables, edits, now, inflight >>

Calculate(cartItems, customer, paymentInfo) ==
  /\ op = "idle"
  /\ op' = "calculate"
  /\ passed' = [cartItems |-> cartItems, customer |-> customer, paymentInfo |-> paymentInfo]
  /\ args' = [cartItems |-> cartItems, customer |-> customer, paymentInfo |-> paymentInfo]
  /\ result' = calculateCartDiscounts(cartItems, customer, paymentInfo, now)
  /\ UNCHANGED << tables, edits, now, inflight >>

Validate(code, cartItems, customer) ==
  /\ op = "idle"
  /\ op' = "validate"
  /\ passed' = [code |-> code, cartItems |-> cartItems, customer |-> customer]
  /\ args' = [code |-> code, cartItems |-> cartItems, customer |-> customer]
  /\ result' = validateDiscountCode(code, cartItems, customer, now)
  /\ UNCHANGED << tables, edits, now, inflight >>

GetAvailable(cartItems, customer) ==
  /\ op = "idle"
  /\ op' = "available"
  /\ passed' = [cartItems |-> cartItems, customer |-> customer]
  /\ args' = [cartItems |-> cartItems, customer |-> customer]
  /\ result' = getAvailableDiscounts(cartItems, customer)
  /\ UNCHANGED << tables, edits, now, inflight >>

\* the caller drops the outcome it holds
Discard ==
  /\ op # "idle"
  /\ op' = "idle"
  /\ passed' = None
  /\ args' = None
  /\ result' = None
  /\ UNCHANGED << tables, edits, now, inflight >>

SetBrandDiscount(brand, rule) ==
  /\ op = "idle" /\ edits < MaxEdits
  /\ brandDiscounts' = MapSet(brandDiscounts, brand, rule)
  /\ edits' = edits + 1
  /\ UNCHANGED << categoryDiscounts, bankOffers, voucherCodes, now, op, passed, args, result,
                  inflight >>

SetCategoryDiscount(category, rule) ==
  /\ op = "idle" /\ edits < MaxEdits
  /\ categoryDiscounts' = MapSet(categoryDiscounts, category, rule)
  /\ edits' = edits + 1
  /\ UNCHANGED << brandDiscounts, bankOffers, voucherCodes, now, op, passed, args, result,
                  inflight >>

SetBankOffer(bank, offer) ==
  /\ op = "idle" /\ edits < MaxEdits
  /\ bankOffers' = MapSet(bankOffers, bank, offer)
  /\ edits' = edits + 1
  /\ UNCHANGED << brandDiscounts, categoryDiscounts, voucherCodes, now, op, passed, args, result,
                  inflight >>

SetVoucherCode(code, voucher) ==
  /\ op = "idle" /\ edits < MaxEdits
  /\ voucherCodes' = MapSet(voucherCodes, code, voucher)
  /\ edits' = edits + 1
  /\ UNCHANGED << brandDiscounts, categoryDiscounts, bankOffers, now, op, passed, args, result,
                  inflight >>

Tick ==
  /\ op = "idle" /\ now < MaxTime
  /\ now' = now + 1
  /\ UNCHANGED << tables, edits, op, passed, args, result, inflight >>

\* the calls the caller makes when it holds no outcome
CallCalculate ==
  /\ op = "idle"
  /\ \E c \in Carts, k \in Customers : \E p \in PaymentsFor(c) : Calculate(c, k, p)

CallCalculateOnOddCart ==
  /\ op = "idle"
  /\ \E c \in OddCarts, k \in {None, Customer(None)} : Calculate(c, k, None)

CallCalculateWithoutCustomer ==
  /\ op = "idle"
  /\ \E c \in Carts : Calculate(c, None, None)

CallValidate ==
  /\ op = "idle"
  /\ \E code \in Codes, c \in Carts \cup OddCarts : Validate(code, c, Customer(None))

CallGetAvailable ==
  /\ op = "idle"
  /\ \E c \in Carts \cup OddCarts : GetAvailable(c, Customer(None))

Next ==
  \/ CallCalculate
  \/ CallCalculateOnOddCart
  \/ CallCalculateWithoutCustomer
  \/ CallValidate
  \/ CallGetAvailable
  \/ Discard
  \/ \E e \in BrandEdits : SetBrandDiscount(e[1], e[2])
  \/ \E e \in CategoryEdits : SetCategoryDiscount(e[1], e[2])
  \/ \E e \in BankEdits : SetBankOffer(e[1], e[2])
  \/ \E e \in VoucherEdits : SetVoucherCode(e[1], e[2])
  \/ Tick

Spec == Init /\ [][Next]_vars

(***************************************************************************)
(* Calls of calculateCartDiscounts in flight.  The method is async: with a *)
(* voucher code it runs up to `await this.applyVoucherDiscount(...)`       *)
(* (line 96), where applyVoucherDiscount has run up to its own             *)
(* `await this.validateDiscountCode(...)` (line 203) or, for a code that   *)
(* is no key of the table, has returned (line 199).  validateDiscountCode  *)
(* has no await and runs within the first segment, where it reads the      *)
(* clock.  Each resumption is a step of its own, and steps of two calls    *)
(* may alternate.  A call without voucher code, or one that throws at      *)
(* lines 64-78, reaches no await and runs whole.                           *)
(*                                                                         *)
(* A call in flight holds its arguments (input), the time it was made, the *)
(* locals of calculateCartDiscounts (locals), those of applyVoucherDiscount*)
(* (voucher, validation), the value the awaited promise resolves to        *)
(* (settled) and, at the end, the outcome.  overlapped notes that the call *)
(* resumed while the other one was suspended.                              *)
(***************************************************************************)
Suspended(id) == inflight[id].pc \in {"awaitValidation", "awaitVoucher"}
Other(id) == CHOOSE other \in CallIds : other # id

ReachesAwait(cartItems, customer) ==
  /\ IsArray(cartItems) /\ Len(Get(cartItems)) > 0
  /\ IsSome(customer)
  /\ FirstFault(Get(cartItems)) = 0
  /\ IsSome(Get(customer).voucherCode)

\* lines 62-96, 196-203: the call up to its first await
FirstSegment(cartItems, customer, paymentInfo, t) ==
  LET input == [cartItems |-> cartItems, customer |-> customer,
                paymentInfo |-> paymentInfo]
      blank == [pc |-> "done", input |-> input, startedAt |-> t, locals |-> None,
                voucher |-> None, validation |-> None, settled |-> None,
                outcome |-> None, overlapped |-> FALSE]
  IN IF ~ReachesAwait(cartItems, customer)
     THEN [blank EXCEPT
             !.outcome = Some(calculateCartDiscounts(cartItems, customer, paymentInfo, t))]
     ELSE LET items == Get(cartItems)
              code == Get(Get(customer).voucherCode)
              st == BrandCategoryStep(items)
          IN IF ~Has(voucherCodes, code)
             THEN [blank EXCEPT
                     !.pc = "awaitVoucher",
                     !.locals = Some(st),
                     !.settled = Some([total |-> st.currentTotal, discount |-> DZero,
                                       message |-> << >>, error |-> None])]
             ELSE [blank EXCEPT
                     !.pc = "awaitValidation",
                     !.locals = Some(st),
                     !.voucher = Some(voucherCodes[code]),
                     !.validation = Some(validateDiscountCode(code, cartItems,
                                                              Get(customer), t))]

\* lines 204-221: applyVoucherDiscount after its await
SettleVoucher(voucher, validation, voucherCode, currentTotal) ==
  IF ~validation.isValid
  THEN [total |-> currentTotal, discount |-> DZero, message |-> << >>,
        error |-> validation.error]
  ELSE LET discountAmount == PercentOf(currentTotal, voucher.percentage)
           actualDiscount == CapDiscount(discountAmount, voucher.max_discount)
       IN [total |-> DSub(currentTotal, actualDiscount),
           discount |-> actualDiscount,
           message |-> NumberToString(voucher.percentage) \o OffWith
                         \o Chars(voucherCode),
           error |-> None]

\* lines 98-106: calculateCartDiscounts after its await
RecordVoucher(st, code, r) ==
  IF DGt(r.discount, DZero)
  THEN [st EXCEPT !.currentTotal = r.total,
                  !.appliedDiscounts = MapSet(st.appliedDiscounts, VoucherLabel(code),
                                              r.discount),
                  !.discountMessages = Append(st.discountMessages, r.message)]
  ELSE IF IsSome(r.error)
  THEN [st EXCEPT !.warned = r.error,
                  !.discountMessages =
                     Append(st.discountMessages,
                            VoucherPrefix \o Chars(code) \o NotAppliedSuffix)]
  ELSE st

\* lines 109-126: the bank step and the DiscountedPrice returned
LastSegment(st, cartItems, paymentInfo) ==
  LET end == BankStep(st, paymentInfo)
  IN [status |-> "returned",
      original_price |-> SumBasePrices(Get(cartItems)),
      final_price |-> end.currentTotal,
      applied_discounts |-> end.appliedDiscounts,
      message |-> Join(end.discountMessages, Separator),
      lines |-> end.lines,
      warned |-> end.warned]

\* faulty variant: the locals are fields of the service, overwritten by the other
\* call when it is suspended too
LocalsSharedWithOther(id) ==
  IF Suspended(Other(id)) THEN Get(inflight[Other(id)].locals)
  ELSE Get(inflight[id].locals)

\* let currentTotal, const appliedDiscounts, const discountMessages (lines 80-82)
Locals(id) == Get(inflight[id].locals)

AsyncCarts ==
  { AssignmentCart, UnmatchedCart,
    Some(<< CartItem(Product("PUMA", "T-shirts", 500), 1) >>),
    Some(<< GoodItem, NoProductItem >>) }
AsyncCustomers == { Customer(None), Customer(Some("SUPER69")), Customer(Some("INVALID123")) }
AsyncPayments == { None, PaymentInfo("CARD", Some("ICICI")) }

StartCalculate(id, cartItems, customer, paymentInfo) ==
  /\ inflight[id].pc = "none"
  /\ inflight' = [inflight EXCEPT
                    ![id] = FirstSegment(cartItems, customer, paymentInfo, now)]
  /\ UNCHANGED << tables, edits, now, op, passed, args, result >>

ResumeApplyVoucher(id) ==
  /\ inflight[id].pc = "awaitValidation"
  /\ inflight' =
       [inflight EXCEPT
          ![id].pc = "awaitVoucher",
          ![id].settled =
             Some(SettleVoucher(Get(inflight[id].voucher), Get(inflight[id].validation),
                                Get(Get(inflight[id].input.customer).voucherCode),
                                Locals(id).currentTotal)),
          ![id].overlapped = inflight[id].overlapped \/ Suspended(Other(id))]
  /\ UNCHANGED << tables, edits, now, op, passed, args, result >>

ResumeCalculate(id) ==
  /\ inflight[id].pc = "awaitVoucher"
  /\ inflight' =
       [inflight EXCEPT
          ![id].pc = "done",
          ![id].outcome =
             Some(LastSegment(RecordVoucher(Locals(id),
                                            Get(Get(inflight[id].input.customer).voucherCode),
                                            Get(inflight[id].settled)),
                              inflight[id].input.cartItems,
                              inflight[id].input.paymentInfo)),
          ![id].overlapped = inflight[id].overlapped \/ Suspended(Other(id))]
  /\ UNCHANGED << tables, edits, now, op, passed, args, result >>

\* the caller takes the outcome of a finished call
Collect(id) ==
  /\ inflight[id].pc = "done"
  /\ inflight' = [inflight EXCEPT ![id] = NotCalled]
  /\ UNCHANGED << tables, edits, now, op, passed, args, result >>

NextAsync ==
  \/ \E id \in CallIds, c \in AsyncCarts, k \in AsyncCustomers, p \in AsyncPayments :
       StartCalculate(id, c, k, p)
  \/ \E id \in CallIds : ResumeApplyVoucher(id)
  \/ \E id \in CallIds : ResumeCalculate(id)
  \/ \E id \in CallIds : Collect(id)
  \/ Tick

SpecAsync == Init /\ [][NextAsync]_vars

(***************************************************************************)
(* What the properties below speak about: the call the caller holds the    *)
(* outcome of.  Tables and clock do not change while it is held, so they   *)
(* are the tables and the time of the call.                                *)
(***************************************************************************)
Returned == op = "calculate" /\ result.status = "returned"
CallItems == Get(args.cartItems)
HasCode == IsSome(args.customer) /\ IsSome(Get(args.customer).voucherCode)
CallCode == Get(Get(args.customer).voucherCode)
HasBankName == IsSome(args.paymentInfo) /\ IsSome(Get(args.paymentInfo).bank_name)
CallBank == Get(Get(args.paymentInfo).bank_name)
Breakdown == result.applied_discounts

\* x * percentage / 100, written out for the properties
ClaimPercent(x, percentage) == DDiv100(DMul(x, Dec(percentage)))
AtLeast(a, b) == ~DLt(a, b)

\* the same call made by a customer without voucher code
ResultWithoutVoucher ==
  calculateCartDiscounts(args.cartItems, Customer(None), args.paymentInfo, now)

\* the narrative segment 'Voucher <code> could not be applied'
NotAppliedSegment(code) == VoucherPrefix \o Chars(code) \o NotAppliedSuffix

(***************************************************************************)
(* C1: for every call of calculate that returns a result, the original     *)
(* total minus the sum of all amounts of the breakdown equals the final    *)
(* total exactly.                                                          *)
(***************************************************************************)
C1_BreakdownSumsToFinal ==
  Returned =>
    DSub(result.original_price, getTotalDiscount(result)) = result.final_price

C1_Witness ==
  /\ Returned
  /\ HasCode /\ VoucherLabel(CallCode) \in DOMAIN Breakdown
  /\ HasBankName /\ BankLabel(CallBank) \in DOMAIN Breakdown
  /\ \E b \in Brands : BrandLabel(b) \in DOMAIN Breakdown
  /\ \E c \in Categories : CategoryLabel(c) \in DOMAIN Breakdown
  /\ Len(CallItems) = 2

(***************************************************************************)
(* C2: in the brand/category pass, for every cart item whose brand has a   *)
(* rule and whose category has a rule, the per-unit category discount is   *)
(* (basePrice - basePrice * brandPct/100) * categoryPct/100: it is taken   *)
(* on the brand-discounted unit price.  For a cart of one item the amount  *)
(* under Category_<category> is that discount times the quantity.          *)
(***************************************************************************)
StackedCategoryDiscount(item) ==
  ClaimPercent(DSub(BasePrice(item),
                    ClaimPercent(BasePrice(item), brandDiscounts[Brand(item)].percentage)),
               categoryDiscounts[Category(item)].percentage)

HasBothRules(item) ==
  Has(brandDiscounts, Brand(item)) /\ Has(categoryDiscounts, Category(item))

C2_CategoryOnBrandDiscountedPrice ==
  Returned =>
    /\ \A i \in 1..Len(CallItems) :
         HasBothRules(CallItems[i]) =>
           result.lines[i].categoryAmount = Some(StackedCategoryDiscount(CallItems[i]))
    /\ (Len(CallItems) = 1 /\ HasBothRules(CallItems[1])) =>
         Breakdown[CategoryLabel(Category(CallItems[1]))] =
           DMul(StackedCategoryDiscount(CallItems[1]), Dec(Quantity(CallItems[1])))

C2_Witness ==
  /\ Returned
  /\ \E i \in 1..Len(CallItems) :
       /\ HasBothRules(CallItems[i])
       /\ result.lines[i].categoryAmount = Some(StackedCategoryDiscount(CallItems[i]))
       /\ StackedCategoryDiscount(CallItems[i]) #
            ClaimPercent(BasePrice(CallItems[i]),
                         categoryDiscounts[Category(CallItems[i])].percentage)

(***************************************************************************)
(* C3: the passes run in the order brand/category, voucher, bank: an       *)
(* applied voucher amount equals min(cap, T1 * voucherPct/100), T1 the     *)
(* total after the brand/category pass, and an applied bank amount equals  *)
(* min(cap, T2 * bankPct/100), T2 the total after the voucher pass; with   *)
(* no cap configured the amount is the computed one.                       *)
(***************************************************************************)
TotalAfterBrandCategory == applyBrandAndCategoryDiscounts(CallItems).total
VoucherApplied == HasCode /\ VoucherLabel(CallCode) \in DOMAIN Breakdown
BankApplied == HasBankName /\ BankLabel(CallBank) \in DOMAIN Breakdown
TotalAfterVoucher ==
  IF VoucherApplied THEN DSub(TotalAfterBrandCategory, Breakdown[VoucherLabel(CallCode)])
  ELSE TotalAfterBrandCategory

ConfiguredCap(computed, max_discount) ==
  IF IsSome(max_discount) THEN DMin(Dec(Get(max_discount)), computed) ELSE computed
\* the cap the code reads: a max_discount of 0 counts as none
NonZeroCap(computed, max_discount) ==
  IF Truthy(max_discount) THEN DMin(Dec(Get(max_discount)), computed) ELSE computed

C3_VoucherThenBank ==
  Returned =>
    /\ VoucherApplied =>
         Breakdown[VoucherLabel(CallCode)] =
           ConfiguredCap(ClaimPercent(TotalAfterBrandCategory,
                                      voucherCodes[CallCode].percentage),
                         voucherCodes[CallCode].max_discount)
    /\ BankApplied =>
         Breakdown[BankLabel(CallBank)] =
           ConfiguredCap(ClaimPercent(TotalAfterVoucher, bankOffers[CallBank].percentage),
                         bankOffers[CallBank].max_discount)

\* the same order of passes, with the cap as the code reads it
C3_OrderWithNonZeroCap ==
  Returned =>
    /\ VoucherApplied =>
         Breakdown[VoucherLabel(CallCode)] =
           NonZeroCap(ClaimPercent(TotalAfterBrandCategory,
                                   voucherCodes[CallCode].percentage),
                      voucherCodes[CallCode].max_discount)
    /\ BankApplied =>
         Breakdown[BankLabel(CallBank)] =
           NonZeroCap(ClaimPercent(TotalAfterVoucher, bankOffers[CallBank].percentage),
                      bankOffers[CallBank].max_discount)

(***************************************************************************)
(* C4: for a cart whose items have base price >= 0 and quantity >= 1, and  *)
(* rule tables whose percentages lie in 0..100, the final total returned   *)
(* by calculate is >= 0.                                                   *)
(***************************************************************************)
PercentagesInRange ==
  /\ \A b \in DOMAIN brandDiscounts : brandDiscounts[b].percentage \in 0..100
  /\ \A c \in DOMAIN categoryDiscounts : categoryDiscounts[c].percentage \in 0..100
  /\ \A b \in DOMAIN bankOffers : bankOffers[b].percentage \in 0..100
  /\ \A v \in DOMAIN voucherCodes : voucherCodes[v].percentage \in 0..100

CartInRange ==
  \A i \in 1..Len(CallItems) :
    AtLeast(BasePrice(CallItems[i]), DZero) /\ Quantity(CallItems[i]) >= 1

C4_FinalTotalNonNegative ==
  (Returned /\ CartInRange /\ PercentagesInRange) => AtLeast(result.final_price, DZero)

C4_Witness ==
  /\ Returned /\ CartInRange /\ PercentagesInRange
  /\ DGt(result.original_price, DZero)
  /\ result.final_price = DZero
  /\ VoucherApplied

(***************************************************************************)
(* The reason for which the voucher code of the call is rejected, read     *)
(* from the voucher table, the clock and the pre-discount cart total.      *)
(***************************************************************************)
CallIsWellFormed ==
  /\ op = "calculate"
  /\ IsArray(args.cartItems) /\ Len(CallItems) > 0
  /\ IsSome(args.customer)
  /\ \A i \in 1..Len(CallItems) : ItemFault(CallItems[i]) = "none"

ExpiredAt(voucher, t) == IsSome(voucher.valid_until) /\ t > Get(voucher.valid_until)
UnderMinimum(voucher, total) ==
  IsSome(voucher.min_order_value) /\ DLt(total, Dec(Get(voucher.min_order_value)))

RejectionReason ==
  IF ~Has(voucherCodes, CallCode) THEN "CodeNotFound"
  ELSE IF ExpiredAt(voucherCodes[CallCode], now) THEN "Expired"
  ELSE IF UnderMinimum(voucherCodes[CallCode], SumBasePrices(CallItems))
  THEN "MinOrderNotMet"
  ELSE "none"

VoucherRejected == CallIsWellFormed /\ HasCode /\ RejectionReason # "none"
VoucherUnusable ==
  CallIsWellFormed /\ HasCode /\ RejectionReason \in {"Expired", "MinOrderNotMet"}

SameTotalsAndBreakdown(r1, r2) ==
  /\ r1.original_price = r2.original_price
  /\ r1.final_price = r2.final_price
  /\ r1.applied_discounts = r2.applied_discounts

(***************************************************************************)
(* C5 as stated: when the voucher code names a voucher that is expired or  *)
(* whose minimum order value is not met, calculate raises no error, the    *)
(* breakdown has no Voucher_<code> label and the result (original total,   *)
(* final total, breakdown and narrative message) is identical to the       *)
(* result of the same call with the voucher code omitted.                  *)
(***************************************************************************)
C5_IdenticalToOmittedVoucher ==
  VoucherUnusable =>
    /\ result.status = "returned"
    /\ VoucherLabel(CallCode) \notin DOMAIN Breakdown
    /\ SameTotalsAndBreakdown(result, ResultWithoutVoucher)
    /\ result.message = ResultWithoutVoucher.message

(***************************************************************************)
(* C5 as amended: when the voucher code names a voucher that is expired or *)
(* whose minimum order value is not met, calculate raises no error, the    *)
(* breakdown has no Voucher_<code> label, and original total, final total  *)
(* and breakdown are identical to those of the same call with the voucher  *)
(* code omitted; the narrative message is not: it holds the additional     *)
(* segment 'Voucher <code> could not be applied'.                          *)
(***************************************************************************)
C5_IdenticalButForNarrative ==
  VoucherUnusable =>
    /\ result.status = "returned"
    /\ VoucherLabel(CallCode) \notin DOMAIN Breakdown
    /\ SameTotalsAndBreakdown(result, ResultWithoutVoucher)
    /\ Includes(result.message, NotAppliedSegment(CallCode))
    /\ ~Includes(ResultWithoutVoucher.message, NotAppliedSegment(CallCode))
    /\ Len(result.message) > Len(ResultWithoutVoucher.message)

C5_Witness ==
  /\ VoucherUnusable
  /\ RejectionReason = "MinOrderNotMet"
  /\ result.status = "returned"
  /\ BankApplied
  /\ Includes(result.message, NotAppliedSegment(CallCode))

(***************************************************************************)
(* C6 as stated: whenever the voucher code is rejected for CodeNotFound,   *)
(* Expired or MinOrderNotMet, calculate does not throw, applies no voucher *)
(* amount, still runs the bank-offer pass, and records the rejection       *)
(* reason in the narrative message.                                        *)
(***************************************************************************)
ReasonWords(reason) ==
  CASE reason = "CodeNotFound" -> << "n", "o", "t", " ", "f", "o", "u", "n", "d" >>
    [] reason = "Expired" -> << "e", "x", "p", "i", "r", "e", "d" >>
    [] reason = "MinOrderNotMet" ->
         << "M", "i", "n", "i", "m", "u", "m", " ", "o", "r", "d", "e", "r" >>

\* the bank pass has run on the total the voucher pass left untouched
BankPassRanOnUntouchedTotal ==
  /\ SameTotalsAndBreakdown(result, ResultWithoutVoucher)
  /\ (HasBankName /\ Get(args.paymentInfo).method = "CARD" /\ Has(bankOffers, CallBank)
        /\ DGt(TotalAfterBrandCategory, DZero) /\ bankOffers[CallBank].percentage > 0
        /\ (IsSome(bankOffers[CallBank].max_discount)
              => Get(bankOffers[CallBank].max_discount) >= 0))
       => BankApplied

C6_ReasonInNarrative ==
  VoucherRejected =>
    /\ result.status = "returned"
    /\ VoucherLabel(CallCode) \notin DOMAIN Breakdown
    /\ BankPassRanOnUntouchedTotal
    /\ Includes(result.message, ReasonWords(RejectionReason))

(***************************************************************************)
(* C6 as amended: whenever the voucher code is rejected for CodeNotFound,  *)
(* Expired or MinOrderNotMet, calculate does not throw, applies no voucher *)
(* amount and still runs the bank-offer pass.  For Expired and             *)
(* MinOrderNotMet the narrative gains the one segment 'Voucher <code>      *)
(* could not be applied', the same for both reasons, and the reason itself *)
(* goes to console.warn only; for CodeNotFound nothing is recorded: the    *)
(* narrative is that of the call without voucher code.                     *)
(***************************************************************************)
C6_RejectionDegradesGracefully ==
  VoucherRejected =>
    /\ result.status = "returned"
    /\ VoucherLabel(CallCode) \notin DOMAIN Breakdown
    /\ BankPassRanOnUntouchedTotal
    /\ RejectionReason \in {"Expired", "MinOrderNotMet"} =>
         /\ Includes(result.message, NotAppliedSegment(CallCode))
         /\ IsSome(result.warned)
         /\ Get(result.warned).text =
              (IF RejectionReason = "Expired" THEN "has expired on"
               ELSE "Minimum order value required")
    /\ RejectionReason = "CodeNotFound" =>
         /\ result.message = ResultWithoutVoucher.message
         /\ result.warned = None

C6_Witness ==
  /\ VoucherRejected
  /\ RejectionReason = "Expired"
  /\ result.status = "returned"
  /\ BankApplied
  /\ IsSome(result.warned)

(***************************************************************************)
(* The checks of validate, read from the voucher table, the clock and the  *)
(* pre-discount cart total of the held validate call.  The minimum-order   *)
(* check passes when the cart can be summed and its total is not under the *)
(* minimum.                                                                *)
(***************************************************************************)
Validated == op = "validate"
CodeExists == Has(voucherCodes, args.code)
CodeExpired == ExpiredAt(voucherCodes[args.code], now)
CartSummable == CanSum(args.cartItems)
CartTotal == SumBasePrices(Get(args.cartItems))
MinimumMet == CartSummable /\ ~UnderMinimum(voucherCodes[args.code], CartTotal)

(***************************************************************************)
(* C7: validate checks code-exists, not-expired, minimum-order-met in this *)
(* order and reports the first failing check only: an unknown code yields  *)
(* CodeNotFound; a known voucher that is expired yields Expired, also when *)
(* the cart is under its minimum; and the outcome is valid exactly when    *)
(* all three checks pass.  The voucher pass of calculate reports the same  *)
(* first failure to console.warn.                                          *)
(***************************************************************************)
C7_ChecksInOrder ==
  /\ Validated =>
       /\ ~CodeExists => result.errorCode = Some("VOUCHER_NOT_FOUND")
       /\ (CodeExists /\ CodeExpired) => result.errorCode = Some("VOUCHER_EXPIRED")
       /\ (CodeExists /\ ~CodeExpired /\ CartSummable /\ ~MinimumMet) =>
            result.errorCode = Some("MIN_ORDER_NOT_MET")
       /\ result.isValid <=> (CodeExists /\ ~CodeExpired /\ MinimumMet)
       /\ result.isValid <=> (result.errorCode = None)
  /\ (Returned /\ HasCode /\ Has(voucherCodes, CallCode)
        /\ ExpiredAt(voucherCodes[CallCode], now)) =>
       (IsSome(result.warned) /\ Get(result.warned).text = "has expired on")

C7_Witness ==
  /\ Validated
  /\ CodeExists /\ CodeExpired /\ CartSummable /\ ~MinimumMet
  /\ result.errorCode = Some("VOUCHER_EXPIRED")

(***************************************************************************)
(* C8 as stated: the expiry check of validate accepts a voucher only when  *)
(* the current time is strictly before the expiry timestamp; when the      *)
(* current time equals or is later than it the outcome is Expired.         *)
(***************************************************************************)
C8_ExpiredFromExpiryOn ==
  (Validated /\ CodeExists /\ IsSome(voucherCodes[args.code].valid_until)) =>
    (result.errorCode = Some("VOUCHER_EXPIRED")
       <=> now >= Get(voucherCodes[args.code].valid_until))

(***************************************************************************)
(* C8 as amended: the expiry check of validate rejects a voucher exactly   *)
(* when it has an expiry timestamp and the current time is strictly later  *)
(* than it; at the expiry timestamp itself, and before it, the check       *)
(* passes.                                                                 *)
(***************************************************************************)
C8_ExpiredOnlyAfterExpiry ==
  (Validated /\ CodeExists) =>
    (result.errorCode = Some("VOUCHER_EXPIRED")
       <=> (/\ IsSome(voucherCodes[args.code].valid_until)
            /\ now > Get(voucherCodes[args.code].valid_until)))

C8_Witness ==
  /\ Validated /\ CodeExists
  /\ voucherCodes[args.code].valid_until = Some(now)
  /\ result.isValid

(***************************************************************************)
(* C9: the minimum-order check compares the voucher's minimum order value  *)
(* with the pre-discount cart total, also when reached from calculate: a   *)
(* cart whose original total is at least the minimum (equality included)   *)
(* is accepted even when its total after brand/category discounts is under *)
(* the minimum, and a cart whose original total is under the minimum is    *)
(* rejected with MinOrderNotMet.                                           *)
(***************************************************************************)
CallVoucher == voucherCodes[CallCode]
VoucherAmountIfAccepted ==
  NonZeroCap(ClaimPercent(TotalAfterBrandCategory, CallVoucher.percentage),
             CallVoucher.max_discount)

C9_MinimumOnOriginalTotal ==
  /\ (Validated /\ CodeExists /\ ~CodeExpired /\ CartSummable
        /\ IsSome(voucherCodes[args.code].min_order_value)) =>
       IF AtLeast(CartTotal, Dec(Get(voucherCodes[args.code].min_order_value)))
       THEN result.isValid
       ELSE result.errorCode = Some("MIN_ORDER_NOT_MET")
  /\ (Returned /\ HasCode /\ Has(voucherCodes, CallCode)
        /\ ~ExpiredAt(CallVoucher, now) /\ IsSome(CallVoucher.min_order_value)) =>
       IF AtLeast(result.original_price, Dec(Get(CallVoucher.min_order_value)))
       THEN /\ result.warned = None
            /\ DGt(VoucherAmountIfAccepted, DZero) => VoucherApplied
       ELSE /\ ~VoucherApplied
            /\ IsSome(result.warned)
            /\ Get(result.warned).text = "Minimum order value required"

C9_Witness ==
  /\ Returned /\ HasCode /\ Has(voucherCodes, CallCode)
  /\ IsSome(CallVoucher.min_order_value)
  /\ result.original_price = Dec(Get(CallVoucher.min_order_value))
  /\ DLt(TotalAfterBrandCategory, Dec(Get(CallVoucher.min_order_value)))
  /\ VoucherApplied

(***************************************************************************)
(* C10: for every voucher or bank offer that has a maximum discount cap    *)
(* configured (any cap value, 0 included), the amount recorded under       *)
(* Voucher_<code> or Bank_<bankName> is min(computed percentage amount,    *)
(* cap) and so never exceeds the cap; only when no cap is configured is    *)
(* the computed amount applied uncapped.                                   *)
(***************************************************************************)
C10_CapAlwaysBinds ==
  Returned =>
    /\ VoucherApplied =>
         /\ Breakdown[VoucherLabel(CallCode)] =
              ConfiguredCap(ClaimPercent(TotalAfterBrandCategory, CallVoucher.percentage),
                            CallVoucher.max_discount)
         /\ IsSome(CallVoucher.max_discount) =>
              ~DGt(Breakdown[VoucherLabel(CallCode)], Dec(Get(CallVoucher.max_discount)))
    /\ BankApplied =>
         /\ Breakdown[BankLabel(CallBank)] =
              ConfiguredCap(ClaimPercent(TotalAfterVoucher, bankOffers[CallBank].percentage),
                            bankOffers[CallBank].max_discount)
         /\ IsSome(bankOffers[CallBank].max_discount) =>
              ~DGt(Breakdown[BankLabel(CallBank)],
                   Dec(Get(bankOffers[CallBank].max_discount)))

(***************************************************************************)
(* The kinds of failure of calculate, told apart by the prefix of the      *)
(* message of the Error it throws.                                         *)
(***************************************************************************)
StartsWith(m, s) == Len(m) >= Len(s) /\ SubSeq(m, 1, Len(s)) = s

Failed == op = "calculate" /\ result.status = "threw"
IsInvalidInput == StartsWith(result.error, InvalidInputPrefix)
IsInvalidCartItem == StartsWith(result.error, InvalidCartDataPrefix)
IsComputationFailure == StartsWith(result.error, FailedToCalculatePrefix)

CartMissingOrEmpty ==
  ~IsSome(args.cartItems) \/ ~IsArray(args.cartItems) \/ Len(CallItems) = 0
CustomerMissing == ~IsSome(args.customer)

(***************************************************************************)
(* C11: calculate fails with an InvalidInput error and returns no result   *)
(* when the cart is missing, is no sequence or is empty, the message then  *)
(* naming that cart items are required, or when the customer is missing;   *)
(* an InvalidInput error is neither an InvalidCartItem error nor the       *)
(* generic computation failure, and it is raised for these inputs only.    *)
(***************************************************************************)
C11_InvalidInput ==
  op = "calculate" =>
    /\ CartMissingOrEmpty =>
         /\ Failed /\ IsInvalidInput
         /\ Includes(result.error, CartItemsRequiredPhrase)
    /\ CustomerMissing => (Failed /\ IsInvalidInput)
    /\ (CustomerMissing /\ ~CartMissingOrEmpty) =>
         Includes(result.error, CustomerRequiredPhrase)
    /\ Failed =>
         /\ IsInvalidInput <=> (CartMissingOrEmpty \/ CustomerMissing)
         /\ IsInvalidInput => (~IsInvalidCartItem /\ ~IsComputationFailure)

C11_Witness ==
  /\ Failed /\ IsInvalidInput
  /\ CustomerMissing /\ ~CartMissingOrEmpty
  /\ \A i \in 1..Len(CallItems) : ItemFault(CallItems[i]) = "none"

(***************************************************************************)
(* The per-item precondition of calculate: a product, a base price that is *)
(* not negative, and a positive quantity.                                  *)
(***************************************************************************)
BreaksItemPrecondition(item) ==
  IF ~IsSome(item.product) THEN TRUE
  ELSE IF ~IsSome(Get(item.product).base_price) THEN TRUE
  ELSE IF DLt(BasePrice(item), DZero) THEN TRUE
  ELSE IsSome(item.quantity) /\ Quantity(item) <= 0

CallReachesItems ==
  /\ op = "calculate"
  /\ ~CartMissingOrEmpty /\ ~CustomerMissing
  /\ \A i \in 1..Len(CallItems) : ~ItemIsNull(CallItems[i])

(***************************************************************************)
(* C12: calculate fails with an InvalidCartItem error and returns no       *)
(* result whenever some cart item lacks a product, lacks a base price, has *)
(* a negative base price, or has a quantity that is zero or negative.      *)
(***************************************************************************)
C12_InvalidCartItem ==
  (CallReachesItems /\ \E i \in 1..Len(CallItems) : BreaksItemPrecondition(CallItems[i]))
    => (Failed /\ IsInvalidCartItem)

(***************************************************************************)
(* The labels of a breakdown that begin with Bank_, and the conditions     *)
(* under which the payment of the call qualifies for a bank offer.         *)
(***************************************************************************)
BankLabels(breakdown) == { l \in DOMAIN breakdown : l[1] = "Bank" }

PaymentQualifies ==
  /\ IsSome(args.paymentInfo)
  /\ IsSome(Get(args.paymentInfo).bank_name)
  /\ Get(args.paymentInfo).method = "CARD"
  /\ Has(bankOffers, CallBank)

\* the same call made without payment info
ResultWithoutPayment ==
  calculateCartDiscounts(args.cartItems, args.customer, None, now)

(***************************************************************************)
(* C13: the result of calculate holds a Bank_<bankName> label only when    *)
(* payment info is present, has a bank name, its method is 'CARD' and the  *)
(* bank name is a key of the bank-offer table, and the label is that of    *)
(* this bank; in every other case (no payment info, no bank name, another  *)
(* method, unknown bank) calculate raises no error, records no bank label  *)
(* and the final total equals the total after the voucher pass: the result *)
(* is that of the same call without payment info.                          *)
(***************************************************************************)
C13_BankOnlyForKnownCard ==
  /\ Returned =>
       (BankLabels(Breakdown) # {} =>
          (PaymentQualifies /\ BankLabels(Breakdown) = {BankLabel(CallBank)}))
  /\ (CallIsWellFormed /\ ~PaymentQualifies) =>
       /\ result.status = "returned"
       /\ BankLabels(Breakdown) = {}
       /\ result.final_price = TotalAfterVoucher
       /\ result = ResultWithoutPayment

C13_Witness ==
  /\ Returned /\ ~PaymentQualifies
  /\ HasBankName /\ Has(bankOffers, CallBank)
  /\ Get(args.paymentInfo).method = "UPI"
  /\ VoucherApplied
  /\ result.final_price = TotalAfterVoucher
  /\ DGt(result.final_price, DZero)

(***************************************************************************)
(* C14: in every result returned by calculate for a cart that meets the    *)
(* preconditions, every label of the breakdown (Brand_, Category_,         *)
(* Voucher_ or Bank_) maps to an amount strictly greater than zero: a      *)
(* discount whose computed amount is zero contributes no label.            *)
(***************************************************************************)
C14_NoZeroAmountLabel ==
  (Returned /\ CartInRange /\ PercentagesInRange) =>
    \A l \in DOMAIN Breakdown : DGt(Breakdown[l], DZero)

\* the part of it the code keeps: the guards discount.gt(0) of lines 98 and 114
C14_VoucherAndBankAmountsPositive ==
  (Returned /\ CartInRange /\ PercentagesInRange) =>
    \A l \in DOMAIN Breakdown : l[1] \in {"Voucher", "Bank"} => DGt(Breakdown[l], DZero)

(***************************************************************************)
(* C15: with the default rule tables, calculate on the cart                *)
(* [PUMA T-shirt 2000 x 2, PUMA T-shirt 1500 x 1], a customer without      *)
(* voucher code and payment by ICICI card returns original total 5500,     *)
(* final total 2673 and the breakdown                                      *)
(* {Brand_PUMA: 2200, Category_T-shirts: 330, Bank_ICICI: 297}.            *)
(***************************************************************************)
AssignmentCall ==
  /\ op = "calculate"
  /\ initializeDiscountRules
  /\ args.cartItems = AssignmentCart
  /\ args.customer = Customer(None)
  /\ args.paymentInfo = PaymentInfo("CARD", Some("ICICI"))

C15_AssignmentScenario ==
  AssignmentCall =>
    /\ result.status = "returned"
    /\ result.original_price = Dec(5500)
    /\ result.final_price = Dec(2673)
    /\ DOMAIN Breakdown =
         {BrandLabel("PUMA"), CategoryLabel("T-shirts"), BankLabel("ICICI")}
    /\ Breakdown[BrandLabel("PUMA")] = Dec(2200)
    /\ Breakdown[CategoryLabel("T-shirts")] = Dec(330)
    /\ Breakdown[BankLabel("ICICI")] = Dec(297)

C15_Witness ==
  /\ AssignmentCall
  /\ result.status = "returned"
  /\ result.final_price = Dec(2673)

(***************************************************************************)
(* C16: at a time before the voucher's expiry, calculate with voucher      *)
(* SUPER69 (69%, cap 5000, minimum order 1000) on a cart of original total *)
(* 5500 whose items match no brand or category rule, with no payment info, *)
(* records min(5500 * 69/100, 5000) = 3795 under Voucher_SUPER69 and       *)
(* returns the final total 1705.                                           *)
(***************************************************************************)
MatchesNoRule(items) ==
  \A i \in 1..Len(items) :
    ~Has(brandDiscounts, Brand(items[i])) /\ ~Has(categoryDiscounts, Category(items[i]))

Super69Call ==
  /\ CallIsWellFormed
  /\ args.customer = Customer(Some("SUPER69"))
  /\ Has(voucherCodes, "SUPER69")
  /\ voucherCodes["SUPER69"] =
       [percentage |-> 69, max_discount |-> Some(5000), min_order_value |-> Some(1000),
        valid_until |-> Some(Date_2025_12_31)]
  /\ now < Date_2025_12_31
  /\ SumBasePrices(CallItems) = Dec(5500)
  /\ MatchesNoRule(CallItems)
  /\ args.paymentInfo = None

C16_Super69Scenario ==
  Super69Call =>
    /\ result.status = "returned"
    /\ result.original_price = Dec(5500)
    /\ DOMAIN Breakdown = {VoucherLabel("SUPER69")}
    /\ Breakdown[VoucherLabel("SUPER69")] = DMin(ClaimPercent(Dec(5500), 69), Dec(5000))
    /\ Breakdown[VoucherLabel("SUPER69")] = Dec(3795)
    /\ result.final_price = Dec(1705)

C16_Witness ==
  /\ Super69Call
  /\ result.status = "returned"
  /\ result.final_price = Dec(1705)

(***************************************************************************)
(* What the brand rule stored for a brand gives on the items of a cart:    *)
(* base price * percentage / 100 * quantity, summed over the items of the  *)
(* brand.                                                                  *)
(***************************************************************************)
RECURSIVE ExpectedBrandAmount(_, _)
ExpectedBrandAmount(items, brand) ==
  IF Len(items) = 0 THEN DZero
  ELSE DAdd(ExpectedBrandAmount(Tail(items), brand),
            IF Brand(Head(items)) = brand
            THEN DMul(ClaimPercent(BasePrice(Head(items)),
                                   brandDiscounts[brand].percentage),
                      Dec(Quantity(Head(items))))
            ELSE DZero)

BrandsOf(items) == { Brand(items[i]) : i \in 1..Len(items) }
CategoriesOf(items) == { Category(items[i]) : i \in 1..Len(items) }
LabelsWith(breakdown, kind) == { l \in DOMAIN breakdown : l[1] = kind }

(***************************************************************************)
(* C17: after any sequence of insertions into the rule tables, calculate   *)
(* reads the tables by exact key and applies the rule currently stored: a  *)
(* brand that is a key of the brand table, newly inserted ones included,   *)
(* appears under Brand_<brand> with the amount its stored percentage       *)
(* gives; a brand, category, voucher code or bank that is no key of its    *)
(* table gets no label, and a call that meets the preconditions never      *)
(* fails for it.                                                           *)
(***************************************************************************)
C17_RulesReadByKey ==
  /\ CallIsWellFormed => result.status = "returned"
  /\ Returned =>
       /\ LabelsWith(Breakdown, "Brand") =
            { BrandLabel(b) : b \in { x \in BrandsOf(CallItems) : Has(brandDiscounts, x) } }
       /\ LabelsWith(Breakdown, "Category") =
            { CategoryLabel(c) :
                c \in { x \in CategoriesOf(CallItems) : Has(categoryDiscounts, x) } }
       /\ \A b \in BrandsOf(CallItems) :
            Has(brandDiscounts, b) =>
              Breakdown[BrandLabel(b)] = ExpectedBrandAmount(CallItems, b)
       /\ (HasCode /\ ~Has(voucherCodes, CallCode)) => LabelsWith(Breakdown, "Voucher") = {}
       /\ (HasBankName /\ ~Has(bankOffers, CallBank)) => LabelsWith(Breakdown, "Bank") = {}

C17_Witness ==
  /\ Returned /\ edits > 0
  /\ Has(brandDiscounts, "TESTBRAND")
  /\ "TESTBRAND" \in BrandsOf(CallItems)
  /\ DGt(Breakdown[BrandLabel("TESTBRAND")], DZero)
  /\ Breakdown[BrandLabel("TESTBRAND")] = ExpectedBrandAmount(CallItems, "TESTBRAND")
  /\ \E c \in CategoriesOf(CallItems) : ~Has(categoryDiscounts, c)

(***************************************************************************)
(* Whole numbers of any size, as sequences of digits, for comparing a      *)
(* quotient of 20 digits with the fraction it stands for.                  *)
(***************************************************************************)
RECURSIVE TimesWithCarry(_, _, _)
TimesWithCarry(ds, k, carry) ==
  IF Len(ds) = 0 THEN NatDigits(carry)
  ELSE TimesWithCarry(SubSeq(ds, 1, Len(ds) - 1), k, (ds[Len(ds)] * k + carry) \div 10)
         \o << (ds[Len(ds)] * k + carry) % 10 >>

Times(ds, k) == StripLeadingZeros(TimesWithCarry(ds, k, 0))

RECURSIVE Zeros(_)
Zeros(n) == IF n <= 0 THEN << >> ELSE << 0 >> \o Zeros(n - 1)

\* ds * 10^n for a number that is not zero
Shift(ds, n) == IF Len(ds) = 0 THEN ds ELSE ds \o Zeros(n)

RECURSIVE LessFrom(_, _, _)
LessFrom(a, b, i) ==
  IF i > Len(a) THEN FALSE
  ELSE IF a[i] # b[i] THEN a[i] < b[i]
  ELSE LessFrom(a, b, i + 1)

Less(a, b) == IF Len(a) # Len(b) THEN Len(a) < Len(b) ELSE LessFrom(a, b, 1)

\* the digits of the number one smaller, for a number that is not zero
RECURSIVE Decrement(_)
Decrement(ds) ==
  IF ds[Len(ds)] > 0
  THEN StripLeadingZeros(SubSeq(ds, 1, Len(ds) - 1) \o << ds[Len(ds)] - 1 >>)
  ELSE Decrement(SubSeq(ds, 1, Len(ds) - 1)) \o << 9 >>

(***************************************************************************)
(* A quotient q stands for the fraction 100 * t / o exactly when           *)
(* q.d * 10^-q.e * o = 100 * t (Shift by a negative number adds nothing,   *)
(* so one side is shifted).  It is that fraction rounded half up to        *)
(* Precision significant digits when, with D the digits of q padded to     *)
(* Precision digits and k its decimal places then,                         *)
(*      (2 D - 1) * |o|  <=  2 * |100 t| * 10^k  <  (2 D + 1) * |o|.       *)
(* t and o are Decimals [c, e]; o is not zero.                             *)
(***************************************************************************)
PaddedDigits(q) == Shift(q.d, Precision - Len(q.d))
PaddedPlaces(q) == q.e + (Precision - Len(q.d))

\* 2 * |100 t| * 10^k / |o| as a fraction of whole numbers: numerator, denominator
TwiceScaledNumerator(q, t, o) ==
  Shift(Times(NatDigits(Abs(t.c)), 2), 2 + o.e - t.e + PaddedPlaces(q))
ScaledDenominator(o) == NatDigits(Abs(o.c))

IsHundredTimesQuotientRounded(q, t, o) ==
  IF t.c = 0 THEN q = QZero
  ELSE LET numerator == TwiceScaledNumerator(q, t, o)
           twice == Times(PaddedDigits(q), 2)
       IN /\ q.s = Sign(t.c) * Sign(o.c)
          /\ Len(q.d) \in 1..Precision
          /\ q.d[1] # 0 /\ q.d[Len(q.d)] # 0
          /\ ~Less(numerator, Times(Decrement(twice), Abs(o.c)))
          /\ Less(numerator, Times(Increment(twice), Abs(o.c)))

IsHundredTimesQuotientExactly(q, t, o) ==
  IF t.c = 0 THEN q = QZero
  ELSE /\ q.s = Sign(t.c) * Sign(o.c)
       /\ Times(Shift(q.d, 0 - (2 + o.e - t.e + q.e)), Abs(o.c)) =
            Shift(NatDigits(Abs(t.c)), 2 + o.e - t.e + q.e)

\* the sum of the amounts of a breakdown, label by label
AllLabels ==
  { BrandLabel(b) : b \in BrandsOf(CallItems) }
    \cup { CategoryLabel(c) : c \in CategoriesOf(CallItems) }
    \cup { VoucherLabel(v) : v \in Codes } \cup { BankLabel("ICICI"), BankLabel("AXIS") }

RECURSIVE SumOver(_, _)
SumOver(breakdown, labels) ==
  IF labels = {} THEN DZero
  ELSE LET l == CHOOSE x \in labels : TRUE
       IN DAdd(MapGetOrZero(breakdown, l), SumOver(breakdown, labels \ {l}))

(***************************************************************************)
(* C18 as stated: for every result, total discount is the sum of all       *)
(* breakdown values and discount percentage is                             *)
(* totalDiscount / originalTotal * 100, except that it is 0 when the       *)
(* original total is zero; calculate on a cart whose original total is 0   *)
(* succeeds and its result reports discount percentage 0.                  *)
(***************************************************************************)
C18_PercentageIsQuotient ==
  /\ (CallIsWellFormed /\ SumBasePrices(CallItems) = DZero) => result.status = "returned"
  /\ Returned =>
       /\ getTotalDiscount(result) = SumOver(Breakdown, AllLabels)
       /\ IF result.original_price = DZero
          THEN getDiscountPercentage(result) = QZero
          ELSE IsHundredTimesQuotientExactly(getDiscountPercentage(result),
                                             getTotalDiscount(result),
                                             result.original_price)

(***************************************************************************)
(* C18 as amended: for every result, total discount is the sum of all      *)
(* breakdown values; discount percentage is 0 when the original total is   *)
(* zero, and otherwise totalDiscount / originalTotal rounded half up to 20 *)
(* significant digits, times 100, which is the exact value whenever the    *)
(* quotient has no more than 20 significant digits; calculate on a cart    *)
(* whose original total is 0 succeeds and its result reports discount      *)
(* percentage 0.                                                           *)
(***************************************************************************)
C18_PercentageIsRoundedQuotient ==
  /\ (CallIsWellFormed /\ SumBasePrices(CallItems) = DZero) => result.status = "returned"
  /\ Returned =>
       LET percentage == getDiscountPercentage(result)
           totalDiscount == getTotalDiscount(result)
       IN /\ totalDiscount = SumOver(Breakdown, AllLabels)
          /\ IF result.original_price = DZero
             THEN percentage = QZero
             ELSE IF Len(percentage.d) < Precision
             THEN IsHundredTimesQuotientExactly(percentage, totalDiscount,
                                                result.original_price)
             ELSE IsHundredTimesQuotientRounded(percentage, totalDiscount,
                                                result.original_price)

C18_Witness ==
  /\ Returned
  /\ result.original_price = DZero
  /\ DOMAIN Breakdown # {}
  /\ getDiscountPercentage(result) = QZero

OutcomeWhenRunAlone(call) ==
  calculateCartDiscounts(call.input.cartItems, call.input.customer,
                         call.input.paymentInfo, call.startedAt)

C20_InterleavedCallsAsAlone ==
  \A id \in CallIds :
    inflight[id].pc = "done" => Get(inflight[id].outcome) = OutcomeWhenRunAlone(inflight[id])

C20_Witness ==
  /\ inflight[1].pc = "done" /\ inflight[1].overlapped
  /\ Suspended(2)
  /\ inflight[1].input # inflight[2].input
  /\ Get(inflight[1].outcome).status = "returned"
  /\ VoucherLabel("SUPER69") \in DOMAIN Get(inflight[1].outcome).applied_discounts
  /\ inflight[1].startedAt < now
  /\ Get(inflight[1].locals) # Get(inflight[2].locals)

(***************************************************************************)
(* The held call of getAvailableDiscounts, on a cart that is an array of   *)
(* items each with a product (the method reads nothing else of an item).   *)
(***************************************************************************)
Listed == op = "available"
CartHasProducts ==
  /\ IsArray(args.cartItems)
  /\ \A i \in 1..Len(CallItems) :
       ~ItemIsNull(CallItems[i]) /\ IsSome(CallItems[i].product)

NamesIn(entries) == { entries[i].name : i \in 1..Len(entries) }

(***************************************************************************)
(* C21: getAvailableDiscounts returns in brands exactly the distinct       *)
(* brands of the cart items that are keys of the brand table, each once    *)
(* and paired with its rule, and in categories exactly the distinct        *)
(* categories of the cart items that are keys of the category table, each  *)
(* once and paired with its rule.                                          *)
(***************************************************************************)
C21_ListsKnownBrandsAndCategories ==
  (Listed /\ CartHasProducts) =>
    /\ result.status = "returned"
    /\ NamesIn(result.brands) = { b \in BrandsOf(CallItems) : Has(brandDiscounts, b) }
    /\ Len(result.brands) = Cardinality(NamesIn(result.brands))
    /\ \A i \in 1..Len(result.brands) :
         result.brands[i].discount = brandDiscounts[result.brands[i].name]
    /\ NamesIn(result.categories) =
         { c \in CategoriesOf(CallItems) : Has(categoryDiscounts, c) }
    /\ Len(result.categories) = Cardinality(NamesIn(result.categories))
    /\ \A i \in 1..Len(result.categories) :
         result.categories[i].discount = categoryDiscounts[result.categories[i].name]

C21_Witness ==
  /\ Listed /\ CartHasProducts
  /\ Len(CallItems) = 2
  /\ Brand(CallItems[1]) = Brand(CallItems[2])
  /\ Category(CallItems[1]) = Category(CallItems[2])
  /\ result.status = "returned"
  /\ Len(result.brands) = 1 /\ Len(result.categories) = 1

(***************************************************************************)
(* What the stored rules give per unit of an item: the brand discount on   *)
(* the base price, the category discount on what the brand discount        *)
(* leaves, and the unit price after both.                                  *)
(***************************************************************************)
UnitBrandDiscount(item) ==
  IF Has(brandDiscounts, Brand(item))
  THEN ClaimPercent(BasePrice(item), brandDiscounts[Brand(item)].percentage)
  ELSE DZero
UnitCategoryDiscount(item) ==
  IF Has(categoryDiscounts, Category(item))
  THEN ClaimPercent(DSub(BasePrice(item), UnitBrandDiscount(item)),
                    categoryDiscounts[Category(item)].percentage)
  ELSE DZero
DiscountedUnitPrice(item) ==
  LET afterBrand == DSub(BasePrice(item), UnitBrandDiscount(item))
  IN IF Has(categoryDiscounts, Category(item))
     THEN DSub(afterBrand,
               ClaimPercent(afterBrand, categoryDiscounts[Category(item)].percentage))
     ELSE afterBrand

RECURSIVE SumOfBrand(_, _)
SumOfBrand(items, brand) ==
  IF Len(items) = 0 THEN DZero
  ELSE DAdd(SumOfBrand(Tail(items), brand),
            IF Brand(Head(items)) = brand
            THEN DMul(UnitBrandDiscount(Head(items)), Dec(Quantity(Head(items))))
            ELSE DZero)

RECURSIVE SumOfCategory(_, _)
SumOfCategory(items, category) ==
  IF Len(items) = 0 THEN DZero
  ELSE DAdd(SumOfCategory(Tail(items), category),
            IF Category(Head(items)) = category
            THEN DMul(UnitCategoryDiscount(Head(items)), Dec(Quantity(Head(items))))
            ELSE DZero)

RECURSIVE SumOfDiscountedPrices(_)
SumOfDiscountedPrices(items) ==
  IF Len(items) = 0 THEN DZero
  ELSE DAdd(SumOfDiscountedPrices(Tail(items)),
            DMul(DiscountedUnitPrice(Head(items)), Dec(Quantity(Head(items)))))

\* the total the brand/category pass handed on: the final price with the amounts of
\* the later passes added back
TotalHandedOn ==
  DAdd(result.final_price,
       SumOver(Breakdown, LabelsWith(Breakdown, "Voucher") \cup LabelsWith(Breakdown, "Bank")))

(***************************************************************************)
(* C22: the discounts of the items that share a brand (or a category) with *)
(* a rule accumulate into one label.  Brand_<b> is the sum over the items  *)
(* of brand b of per-unit brand discount times quantity, Category_<c> the  *)
(* sum over the items of category c of per-unit category discount times    *)
(* quantity, and the total after the pass is the sum over the items of     *)
(* discounted unit price times quantity.                                   *)
(***************************************************************************)
C22_SharedLabelsAccumulate ==
  Returned =>
    /\ \A b \in BrandsOf(CallItems) :
         Has(brandDiscounts, b) => Breakdown[BrandLabel(b)] = SumOfBrand(CallItems, b)
    /\ \A c \in CategoriesOf(CallItems) :
         Has(categoryDiscounts, c) =>
           Breakdown[CategoryLabel(c)] = SumOfCategory(CallItems, c)
    /\ LET passTotal == SumOfDiscountedPrices(CallItems)
       IN /\ TotalHandedOn = passTotal
          /\ (LabelsWith(Breakdown, "Voucher") \cup LabelsWith(Breakdown, "Bank") = {}) =>
               result.final_price = passTotal

C22_Witness ==
  /\ Returned
  /\ Len(CallItems) = 2
  /\ BasePrice(CallItems[1]) # BasePrice(CallItems[2])
  /\ Brand(CallItems[1]) = Brand(CallItems[2])
  /\ Category(CallItems[1]) = Category(CallItems[2])
  /\ HasBothRules(CallItems[1])
  /\ DGt(UnitCategoryDiscount(CallItems[1]), DZero)
  /\ DGt(UnitCategoryDiscount(CallItems[2]), DZero)
  /\ Breakdown[CategoryLabel(Category(CallItems[1]))] =
       DAdd(DMul(UnitCategoryDiscount(CallItems[1]), Dec(Quantity(CallItems[1]))),
            DMul(UnitCategoryDiscount(CallItems[2]), Dec(Quantity(CallItems[2]))))
  /\ LabelsWith(Breakdown, "Voucher") # {}

(***************************************************************************)
(* C23: the voucher pass is triggered only by the customer's voucher code  *)
(* and gated by the validator.  In every result of calculate a             *)
(* Voucher_<code> label is present only if the customer carries that code, *)
(* the code is a key of the voucher table, the voucher is not expired at   *)
(* the time of the call and the original cart total meets the voucher's    *)
(* minimum order value; a breakdown has at most one Voucher_ label and at  *)
(* most one Bank_ label.                                                   *)
(***************************************************************************)
C23_VoucherLabelOnlyWhenValidated ==
  Returned =>
    /\ \A l \in LabelsWith(Breakdown, "Voucher") :
         /\ HasCode
         /\ l = VoucherLabel(CallCode)
         /\ Has(voucherCodes, CallCode)
         /\ ~ExpiredAt(voucherCodes[CallCode], now)
         /\ ~UnderMinimum(voucherCodes[CallCode], SumBasePrices(CallItems))
    /\ Cardinality(LabelsWith(Breakdown, "Voucher")) <= 1
    /\ Cardinality(LabelsWith(Breakdown, "Bank")) <= 1

C23_Witness ==
  /\ Returned /\ HasCode
  /\ LabelsWith(Breakdown, "Voucher") = { VoucherLabel(CallCode) }
  /\ Cardinality(LabelsWith(Breakdown, "Bank")) = 1
  /\ IsSome(voucherCodes[CallCode].valid_until)
  /\ now = Get(voucherCodes[CallCode].valid_until)
  /\ IsSome(voucherCodes[CallCode].min_order_value)
  /\ SumBasePrices(CallItems) = Dec(Get(voucherCodes[CallCode].min_order_value))

(***************************************************************************)
(* The outcome of the held call of calculate had it been made at time t,   *)
(* with the same arguments and the same tables.                            *)
(***************************************************************************)
Clock == 1..MaxTime
OutcomeAt(t) == calculateCartDiscounts(args.cartItems, args.customer, args.paymentInfo, t)
NoVoucherInPlay == ~HasCode \/ ~Has(voucherCodes, CallCode)

(***************************************************************************)
(* C24: the current time influences calculate only through the voucher     *)
(* expiry check.  For a customer without a voucher code, or with a code    *)
(* that is no key of the voucher table, the call returns the same outcome  *)
(* at every time; and the outcome of any call is the one its arguments,    *)
(* the tables and the time of the call determine: nothing is carried over  *)
(* from an earlier call.                                                   *)
(***************************************************************************)
C24_TimeOnlyThroughExpiry ==
  op = "calculate" =>
    IF NoVoucherInPlay
    THEN now \in Clock /\ \A t \in Clock : OutcomeAt(t) = result
    ELSE OutcomeAt(now) = result

C24_Witness ==
  /\ Returned
  /\ now > Date_2025_12_31
  /\ NoVoucherInPlay
  /\ BankApplied
  /\ LabelsWith(Breakdown, "Brand") # {}
  /\ OutcomeAt(1) = result

(***************************************************************************)
(* The segments of a narrative message: what lies between the separators   *)
(* that the join of line 125 puts between the messages.                    *)
(***************************************************************************)
SeparatorAt(m, k) ==
  /\ k + Len(Separator) - 1 <= Len(m)
  /\ SubSeq(m, k, k + Len(Separator) - 1) = Separator

RECURSIVE Segments(_)
Segments(m) ==
  IF \E k \in 1..Len(m) : SeparatorAt(m, k)
  THEN LET first == CHOOSE k \in 1..Len(m) :
                      SeparatorAt(m, k) /\ \A j \in 1..(k - 1) : ~SeparatorAt(m, j)
       IN << SubSeq(m, 1, first - 1) >>
            \o Segments(SubSeq(m, first + Len(Separator), Len(m)))
  ELSE << m >>

Occurrences(segs, s) == Cardinality({ i \in 1..Len(segs) : segs[i] = s })

BrandSegment(b) == NumberToString(brandDiscounts[b].percentage) \o OffOn \o Chars(b)
CategorySegment(c) == NumberToString(categoryDiscounts[c].percentage) \o OffOn \o Chars(c)

(***************************************************************************)
(* C25: the narrative message of a result mirrors its breakdown.  For      *)
(* every Brand_<b> label of the breakdown the narrative has exactly one    *)
(* segment '<pct>% off on <b>', and for every Category_<c> label exactly   *)
(* one segment '<pct>% off on <c>', whatever the names in the rule tables, *)
(* names that are substrings of, or equal to, other brand or category      *)
(* names of the cart included.                                             *)
(***************************************************************************)
C25_NarrativeMirrorsBreakdown ==
  Returned =>
    /\ \A b \in BrandsOf(CallItems) :
         BrandLabel(b) \in DOMAIN Breakdown =>
           Occurrences(Segments(result.message), BrandSegment(b)) = 1
    /\ \A c \in CategoriesOf(CallItems) :
         CategoryLabel(c) \in DOMAIN Breakdown =>
           Occurrences(Segments(result.message), CategorySegment(c)) = 1

====
